---------------------------- MODULE Spec2Model ----------------------------
(***************************************************************************)
(* A model of the concurrent call-graph store of vrc: the mini RCU         *)
(* (minircu.h, minircu.cc), ConcurrentArray (conc_array.h),                *)
(* ConcurrentHashSet (conc_set.h), ConcurrentStringMap (conc_map.h) and    *)
(* the graph API (cgraph.cc).                                              *)
(*                                                                         *)
(* Every thread runs the C++ code one shared-memory access at a time: pc   *)
(* is the thread's position, stk its stack of return positions, and the    *)
(* remaining per-thread variables are the locals of the function it is     *)
(* in.  Memory is sequentially consistent.                                 *)
(***************************************************************************)
EXTENDS Integers, Sequences, FiniteSets, TLC

(***************************************************************************)
(* Bounds of the model.                                                    *)
(***************************************************************************)
\* number of threads, each owning one RCUThread handle
NThreads == 2
\* synchronize_rcu() is called only while rcu_gp < MaxGP
MaxGP == 3

Threads == 1..NThreads

\* the registry "threads" of minircu.cc, in registration order
ThreadSeq == [i \in 1..NThreads |-> i]

VARIABLES
    pc,             \* pc[t]: position of thread t
    stk,            \* stk[t]: return positions of the calls t is in
    rcu_gp,         \* RCUThread::rcu_gp
    depth,          \* depth[t]: RCUThread::_depth of t's handle
    period,         \* period[t]: RCUThread::_period
    t_waiting,      \* t_waiting[t]: RCUThread::_waiting
    wake,           \* count of the semaphore RCUThread::wake
    threads_lock,   \* holder of the mutex threads_lock, 0 when free
    l_gp,           \* l_gp[t]: the value lock() loaded from rcu_gp
    gp,             \* local gp of the running synchronize_rcu()
    waiting,        \* local list waiting of the running synchronize_rcu()
    new_waiting,    \* local list new_waiting
    sidx,           \* position of the running for loop over waiting
    gp_open,        \* gp_open[s]: handles whose region was open when s
                    \*   called synchronize_rcu() and has not ended since
    gp_left,        \* gp_left[s]: gp_open[s] at the last return of
                    \*   synchronize_rcu() to s
    capacity,       \* capacity[c]: ConcurrentArray::capacity of container c
    count,          \* count[c]: ConcurrentArray::count
    vec,            \* vec[c]: ConcurrentArray::vec, an index into heap
    mutex,          \* mutex[c]: holder of ConcurrentArray::mutex, 0 when free
    heap,           \* heap[b]: the backing array b: its cells, and whether
                    \*   delete[] has freed it
    strs,           \* strs[p]: the std::string object at pointer p, and
                    \*   whether delete has freed it
    cfr,            \* cfr[t]: locals of the container operation t is in
    afr,            \* afr[t]: locals of reserve() and resize()
    ret,            \* ret[t]: value returned by the last call of t
    ops,            \* ops[t]: operations t has started
    hist,           \* what the operations returned
    node,           \* node[p]: the Node object at pointer p
    gfr,            \* gfr[t]: locals of the graph function t is in
    todo,           \* the calls the main thread still makes before the
                    \*   other threads start
    node_labels     \* Graph::node_labels: the label map it points to

rcuVars == <<rcu_gp, depth, period, t_waiting, wake, threads_lock, l_gp,
             gp, waiting, new_waiting, sidx, gp_open, gp_left>>

memVars == <<capacity, count, vec, mutex, heap, strs>>

frameVars == <<cfr, afr, ret>>

graphVars == <<node, gfr, todo, node_labels>>

apiVars == <<ops, hist, graphVars>>

\* everything but pc, stk and the state of the RCU
otherVars == <<memVars, frameVars, apiVars>>

vars == <<pc, stk, rcuVars, memVars, frameVars, apiVars>>

----------------------------------------------------------------------------
(***************************************************************************)
(* Calls and returns.                                                      *)
(***************************************************************************)
Call(t, target, back) ==
    /\ pc' = [pc EXCEPT ![t] = target]
    /\ stk' = [stk EXCEPT ![t] = <<back>> \o @]

Return(t) ==
    /\ pc' = [pc EXCEPT ![t] = Head(stk[t])]
    /\ stk' = [stk EXCEPT ![t] = Tail(@)]

Goto(t, target) ==
    /\ pc' = [pc EXCEPT ![t] = target]
    /\ UNCHANGED stk

\* std::abort() ends the process: no thread takes another step
Abort ==
    /\ pc' = [u \in Threads |-> "aborted"]
    /\ UNCHANGED stk

----------------------------------------------------------------------------
(***************************************************************************)
(* RCUThread::lock()                                                       *)
(***************************************************************************)
\* lock() without the test of _depth
lock_depth_nested(t) ==
    /\ pc[t] = "lock"
    /\ depth' = [depth EXCEPT ![t] = @ + 1]
    /\ Goto(t, "lock_load")
    /\ UNCHANGED <<rcu_gp, period, t_waiting, wake, threads_lock, l_gp,
                   gp, waiting, new_waiting, sidx, gp_open, gp_left>>
    /\ UNCHANGED otherVars

\* if (_depth++ > 0) std::abort();
lock_depth(t) ==
    /\ pc[t] = "lock"
    /\ depth' = [depth EXCEPT ![t] = @ + 1]
    /\ IF depth[t] > 0
       THEN Abort
       ELSE Goto(t, "lock_load")
    /\ UNCHANGED <<rcu_gp, period, t_waiting, wake, threads_lock, l_gp,
                   gp, waiting, new_waiting, sidx, gp_open, gp_left>>
    /\ UNCHANGED otherVars

\* rcu_gp.load(relaxed)
lock_load(t) ==
    /\ pc[t] = "lock_load"
    /\ l_gp' = [l_gp EXCEPT ![t] = rcu_gp]
    /\ Goto(t, "lock_store")
    /\ UNCHANGED <<rcu_gp, depth, period, t_waiting, wake, threads_lock,
                   gp, waiting, new_waiting, sidx, gp_open, gp_left>>
    /\ UNCHANGED otherVars

\* _period.store(...); atomic_thread_fence(seq_cst)
lock_store(t) ==
    /\ pc[t] = "lock_store"
    /\ period' = [period EXCEPT ![t] = l_gp[t]]
    /\ l_gp' = [l_gp EXCEPT ![t] = 0]
    /\ Return(t)
    /\ UNCHANGED <<rcu_gp, depth, t_waiting, wake, threads_lock,
                   gp, waiting, new_waiting, sidx, gp_open, gp_left>>
    /\ UNCHANGED otherVars

(***************************************************************************)
(* RCUThread::unlock()                                                     *)
(***************************************************************************)
\* --_depth; _period.store(0, release); atomic_thread_fence(seq_cst)
\* The reader region of t ends here.
unlock_store(t) ==
    /\ pc[t] = "unlock"
    /\ depth' = [depth EXCEPT ![t] = @ - 1]
    /\ period' = [period EXCEPT ![t] = 0]
    /\ gp_open' = [s \in Threads |-> gp_open[s] \ {t}]
    /\ Goto(t, "unlock_test")
    /\ UNCHANGED <<rcu_gp, t_waiting, wake, threads_lock, l_gp,
                   gp, waiting, new_waiting, sidx, gp_left>>
    /\ UNCHANGED otherVars

\* if (_waiting.load(relaxed))
unlock_test(t) ==
    /\ pc[t] = "unlock_test"
    /\ IF t_waiting[t]
       THEN Goto(t, "unlock_clear")
       ELSE Return(t)
    /\ UNCHANGED rcuVars
    /\ UNCHANGED otherVars

\* _waiting.store(0, relaxed)
unlock_clear(t) ==
    /\ pc[t] = "unlock_clear"
    /\ t_waiting' = [t_waiting EXCEPT ![t] = FALSE]
    /\ Goto(t, "unlock_wake")
    /\ UNCHANGED <<rcu_gp, depth, period, wake, threads_lock, l_gp,
                   gp, waiting, new_waiting, sidx, gp_open, gp_left>>
    /\ UNCHANGED otherVars

\* wake.release(): the count of the semaphore goes up by one.  Releasing a
\* std::binary_semaphore whose count is 1 is undefined; the count is kept
\* as a number so that such a state shows.
unlock_wake(t) ==
    /\ pc[t] = "unlock_wake"
    /\ wake' = wake + 1
    /\ Return(t)
    /\ UNCHANGED <<rcu_gp, depth, period, t_waiting, threads_lock, l_gp,
                   gp, waiting, new_waiting, sidx, gp_open, gp_left>>
    /\ UNCHANGED otherVars

(***************************************************************************)
(* RCUThread::need_gp(), start_gp(), check_gp()                            *)
(***************************************************************************)
\* auto p = _period.load(); return p && p == rcu_gp.load();
\* (minircu.h gives need_gp and check_gp no parameter for the gp that
\* synchronize_rcu passes at minircu.cc:60: the period is compared with
\* the counter itself, which synchronize_rcu has already advanced.)
need_gp(t) == period[t] # 0 /\ period[t] = rcu_gp

(***************************************************************************)
(* synchronize_rcu()                                                       *)
(***************************************************************************)
\* The call itself: the caller's position moves into synchronize_rcu().
\* gp_open[t] records the reader regions open at this moment.
CallSynchronize(t, back) ==
    /\ Call(t, "sync", back)
    /\ gp_open' = [gp_open EXCEPT ![t] = {r \in Threads : period[r] # 0}]

\* auto guard = std::lock_guard{threads_lock};
sync_lock(t) ==
    /\ pc[t] = "sync"
    /\ threads_lock = 0
    /\ threads_lock' = t
    /\ Goto(t, "sync_gp")
    /\ UNCHANGED <<rcu_gp, depth, period, t_waiting, wake, l_gp,
                   gp, waiting, new_waiting, sidx, gp_open, gp_left>>
    /\ UNCHANGED otherVars

\* if (threads.empty()) return;
\* gp = rcu_gp.load(); rcu_gp.store(gp + 1); waiting = threads
sync_gp(t) ==
    /\ pc[t] = "sync_gp"
    /\ IF Len(ThreadSeq) = 0
       THEN /\ threads_lock' = 0
            /\ gp_left' = [gp_left EXCEPT ![t] = gp_open[t]]
            /\ Return(t)
            /\ UNCHANGED <<rcu_gp, gp, waiting>>
       ELSE /\ gp' = rcu_gp
            /\ rcu_gp' = rcu_gp + 1
            /\ waiting' = ThreadSeq
            /\ Goto(t, "sync_drop")
            /\ UNCHANGED <<threads_lock, gp_left>>
    /\ UNCHANGED <<depth, period, t_waiting, wake, l_gp,
                   new_waiting, sidx, gp_open>>
    /\ UNCHANGED otherVars

\* RCUThread::wake.try_acquire()
sync_drop(t) ==
    /\ pc[t] = "sync_drop"
    /\ wake' = IF wake > 0 THEN wake - 1 ELSE wake
    /\ sidx' = 1
    /\ Goto(t, "sync_start")
    /\ UNCHANGED <<rcu_gp, depth, period, t_waiting, threads_lock, l_gp,
                   gp, waiting, new_waiting, gp_open, gp_left>>
    /\ UNCHANGED otherVars

\* for (auto& t: waiting) t->start_gp();   one store per step
sync_start(t) ==
    /\ pc[t] = "sync_start"
    /\ IF sidx <= Len(waiting)
       THEN /\ t_waiting' = [t_waiting EXCEPT ![waiting[sidx]] = TRUE]
            /\ sidx' = sidx + 1
            /\ Goto(t, "sync_start")
       ELSE /\ sidx' = 1
            /\ Goto(t, "sync_check")
            /\ UNCHANGED t_waiting
    /\ UNCHANGED <<rcu_gp, depth, period, wake, threads_lock, l_gp,
                   gp, waiting, new_waiting, gp_open, gp_left>>
    /\ UNCHANGED otherVars

\* for (auto& t: waiting) t->check_gp(gp, new_waiting);   one handle per step
\* if (new_waiting.empty()) return;
sync_check(t) ==
    /\ pc[t] = "sync_check"
    /\ IF sidx <= Len(waiting)
       THEN /\ IF need_gp(waiting[sidx])
               THEN /\ new_waiting' = Append(new_waiting, waiting[sidx])
                    /\ UNCHANGED t_waiting
               ELSE /\ t_waiting' = [t_waiting EXCEPT ![waiting[sidx]] = FALSE]
                    /\ UNCHANGED new_waiting
            /\ sidx' = sidx + 1
            /\ Goto(t, "sync_check")
            /\ UNCHANGED <<threads_lock, gp, waiting, gp_left>>
       ELSE IF new_waiting = <<>>
            THEN /\ threads_lock' = 0
                 /\ gp' = 0
                 /\ waiting' = <<>>
                 /\ sidx' = 0
                 /\ gp_left' = [gp_left EXCEPT ![t] = gp_open[t]]
                 /\ Return(t)
                 /\ UNCHANGED <<t_waiting, new_waiting>>
            ELSE /\ Goto(t, "sync_wait")
                 /\ UNCHANGED <<t_waiting, threads_lock, gp, waiting,
                                new_waiting, sidx, gp_left>>
    /\ UNCHANGED <<rcu_gp, depth, period, wake, l_gp, gp_open>>
    /\ UNCHANGED otherVars

\* RCUThread::wake.acquire(); waiting = std::move(new_waiting);
sync_wait(t) ==
    /\ pc[t] = "sync_wait"
    /\ wake > 0
    /\ wake' = wake - 1
    /\ waiting' = new_waiting
    /\ new_waiting' = <<>>
    /\ Goto(t, "sync_drop")
    /\ UNCHANGED <<rcu_gp, depth, period, t_waiting, threads_lock, l_gp,
                   gp, sidx, gp_open, gp_left>>
    /\ UNCHANGED otherVars

\* the steps of minircu.h and minircu.cc
RcuStep(t) ==
    \/ lock_depth(t)
    \/ lock_load(t)
    \/ lock_store(t)
    \/ unlock_store(t)
    \/ unlock_test(t)
    \/ unlock_clear(t)
    \/ unlock_wake(t)
    \/ sync_lock(t)
    \/ sync_gp(t)
    \/ sync_drop(t)
    \/ sync_start(t)
    \/ sync_check(t)
    \/ sync_wait(t)

InitRcuVars ==
    /\ rcu_gp = 1
    /\ depth = [t \in Threads |-> 0]
    /\ period = [t \in Threads |-> 0]
    /\ t_waiting = [t \in Threads |-> FALSE]
    /\ wake = 1
    /\ threads_lock = 0
    /\ l_gp = [t \in Threads |-> 0]
    /\ gp = 0
    /\ waiting = <<>>
    /\ new_waiting = <<>>
    /\ sidx = 0
    /\ gp_open = [t \in Threads |-> {}]
    /\ gp_left = [t \in Threads |-> {}]

InSync(t) == pc[t] \in {"sync", "sync_gp", "sync_drop", "sync_start",
                        "sync_check", "sync_wait"}

----------------------------------------------------------------------------
(***************************************************************************)
(* ConcurrentArray<T, Owner>                                               *)
(***************************************************************************)
\* HashDefault<size_t>::default_value, (size_t)-1
EMPTY == -1

\* log2 of the capacity the containers of the graph are constructed with:
\* 5 in the source (capacity_ = 32), scaled down so that the containers
\* grow after a few insertions instead of after 24
GraphCapLog == 2

GraphCap == 2 ^ GraphCapLog

\* the container nodes_by_file of struct Graph, whose values are lists
BYFILE == <<"nodes_by_file", 0>>

\* what create_value() makes for the values of map c
ValueKind(c) == IF c = BYFILE THEN "ilist" ELSE "set"

NoCfr == [c |-> "", op |-> "", key |-> 0, val |-> 0, h |-> 0, i |-> 0, b |-> 0]
NoAfr == [lf |-> 0, current |-> 0, cap |-> 0, old |-> 0, new |-> 0, j |-> 0]

\* the container the operation of t works on
Cont(t) == cfr[t].c

\* std::size_t max = load_factor * current_capacity, the load factor given
\* in quarters: 3 for 0.75, 4 for 1.0
MaxLoad(lf, cap) == (lf * cap) \div 4

\* Owner::alloc(n) of ConcurrentHashSet: n cells holding default_value
AllocSet(n) == [kind |-> "set", freed |-> FALSE,
                cells |-> [i \in 0..(n - 1) |-> EMPTY]]

\* the probe loop of ConcurrentHashSet::copy: from i, the first cell of
\* dest that holds default_value
RECURSIVE ProbeEmpty(_, _, _)
ProbeEmpty(cells, n, i) ==
    LET j == (i + 1) % n
    IN  IF cells[j] = EMPTY THEN j ELSE ProbeEmpty(cells, n, j)

\* std::hash<size_t>: the identity (libstdc++, libc++)
Hash(k) == k

\* one round of the for loop of ConcurrentHashSet::copy: source cell j
CopySet(dest, src, dest_count, j) ==
    LET k == src[j]
    IN  IF k # EMPTY
        THEN [dest EXCEPT ![ProbeEmpty(dest, dest_count, Hash(k) - 1)] = k]
        ELSE dest

\* a null key pointer, and the pointer PENDING of conc_map.h,
\* (std::string *) (std::uintptr_t) -1
NULL == 0
PENDING == -1

\* Owner::alloc(n) of ConcurrentStringMap: n entries MapEntry(), key NULL
\* and value value_type()
AllocMap(n) == [kind |-> "map", freed |-> FALSE,
                cells |-> [i \in 0..(n - 1) |-> [key |-> NULL, value |-> 0]]]

\* std::hash<std::string>: some function of the string; on the keys of the
\* model it is
StrHash(s) ==
    CASE s = "abc" -> 1
      [] s = "def" -> 5
      [] s = "ghi" -> 2
      [] s = "jkl" -> 7
      [] s = "a" -> 1
      [] s = "b" -> 6
      [] OTHER -> 3

\* the probe loop of ConcurrentStringMap::copy: from i, the first entry of
\* dest whose key is NULL
RECURSIVE ProbeNull(_, _, _)
ProbeNull(cells, n, i) ==
    LET j == (i + 1) % n
    IN  IF cells[j].key = NULL THEN j ELSE ProbeNull(cells, n, j)

\* the hash values hash(*p) can give: that of the string, or any value
\* when the string has been deleted
HashOf(p, n) == IF strs[p].freed THEN 0..(n - 1) ELSE {StrHash(strs[p].s)}

\* the results *p == key can give: any when the string has been deleted
KeyEq(p, key) == IF strs[p].freed THEN BOOLEAN ELSE {strs[p].s = key}

\* one round of the for loop of ConcurrentStringMap::copy: source entry j,
\* hv the value of hash(*e.key); dest[i] = e copies key and value
CopyMap(dest, src, dest_count, j, hv) ==
    IF src[j].key # NULL
    THEN [dest EXCEPT ![ProbeNull(dest, dest_count, hv - 1)] = src[j]]
    ELSE dest

\* Owner::alloc(n) of ConcurrentList<std::unique_ptr<Node>>: n entries
\* ListEntry(), value a null Node pointer
AllocList(n) == [kind |-> "list", freed |-> FALSE,
                 cells |-> [i \in 0..(n - 1) |-> NULL]]

\* Owner::alloc(n) of ConcurrentStringMap<std::unique_ptr<T>>: the values
\* are null pointers to T
AllocPtrMap(n) == [AllocMap(n) EXCEPT !.kind = "pmap"]

\* Owner::alloc(n) of ConcurrentList<size_t>: the values are size_t()
AllocIndexList(n) == [AllocList(n) EXCEPT !.kind = "ilist"]

\* Owner::alloc(new_capacity) for the owner of a backing of this kind
Alloc(kind, n) ==
    CASE kind = "map" -> AllocMap(n)
      [] kind = "pmap" -> AllocPtrMap(n)
      [] kind = "list" -> AllocList(n)
      [] kind = "ilist" -> AllocIndexList(n)
      [] OTHER -> AllocSet(n)

\* the Node pointers the entries of a backing hold
NodesOf(b) == IF heap[b].kind = "list"
              THEN {heap[b].cells[i] : i \in DOMAIN heap[b].cells} \ {NULL}
              ELSE {}

\* the containers a Node owns
NodeSets(p) == {<<"callers", p>>, <<"calls", p>>, <<"refs", p>>}

\* the key pointers the entries of a backing hold
KeysOf(b) == IF heap[b].kind \in {"map", "pmap"}
             THEN {heap[b].cells[i].key : i \in DOMAIN heap[b].cells}
             ELSE {}

\* the container that create_value() has made with new T(), as the value v
\* of a map of std::unique_ptr<T> points to it
ObjCont(v) == <<"obj", v>>

\* the containers the values of the entries of a backing point to
ObjsOf(b) == IF heap[b].kind = "pmap"
             THEN {ObjCont(heap[b].cells[i].value) :
                      i \in DOMAIN heap[b].cells} \cap DOMAIN vec
             ELSE {}

\* std::size_t current = count.load(relaxed)
reserve_count(t) ==
    /\ pc[t] \in {"reserve", "reserve_reload"}
    /\ afr' = [afr EXCEPT ![t].current = count[Cont(t)]]
    /\ Goto(t, "reserve_cap")
    /\ UNCHANGED <<rcuVars, memVars, cfr, ret, apiVars>>

\* reserve that keeps the reader region of the caller open around resize:
\* if (current < max) break; else resize(owner, current_capacity,
\* 2 * current_capacity); current = count.load(relaxed)
reserve_cap_locked(t) ==
    /\ pc[t] = "reserve_cap"
    /\ LET cc == capacity[Cont(t)]
       IN  IF afr[t].current < MaxLoad(afr[t].lf, cc)
           THEN /\ Goto(t, "reserve_cas")
                /\ UNCHANGED afr
           ELSE /\ afr' = [afr EXCEPT ![t].cap = cc]
                /\ pc' = [pc EXCEPT ![t] = "resize"]
                /\ stk' = [stk EXCEPT ![t] = <<"reserve_reload">> \o @]
    /\ UNCHANGED <<rcuVars, memVars, cfr, ret, apiVars>>

\* current_capacity = capacity.load(acquire); if (current < max) break;
\* else rcu.unlock(); resize(owner, current_capacity, 2 * current_capacity);
\*      rcu.lock(); current = count.load(relaxed)
reserve_cap(t) ==
    /\ pc[t] = "reserve_cap"
    /\ LET cc == capacity[Cont(t)]
       IN  IF afr[t].current < MaxLoad(afr[t].lf, cc)
           THEN /\ Goto(t, "reserve_cas")
                /\ UNCHANGED afr
           ELSE /\ afr' = [afr EXCEPT ![t].cap = cc]
                /\ pc' = [pc EXCEPT ![t] = "unlock"]
                /\ stk' = [stk EXCEPT
                             ![t] = <<"resize", "lock", "reserve_reload">> \o @]
    /\ UNCHANGED <<rcuVars, memVars, cfr, ret, apiVars>>

\* reserve with a plain store in the place of the compare-exchange:
\* count.store(current + 1); return current;
reserve_cas_store(t) ==
    /\ pc[t] = "reserve_cas"
    /\ count' = [count EXCEPT ![Cont(t)] = afr[t].current + 1]
    /\ ret' = [ret EXCEPT ![t] = afr[t].current]
    /\ Return(t)
    /\ UNCHANGED <<rcuVars, capacity, vec, mutex, heap, strs, cfr, afr,
                   apiVars>>

\* count.compare_exchange_weak(current, current + 1); return current;
reserve_cas(t) ==
    /\ pc[t] = "reserve_cas"
    /\ IF count[Cont(t)] = afr[t].current
       THEN /\ count' = [count EXCEPT ![Cont(t)] = @ + 1]
            /\ ret' = [ret EXCEPT ![t] = afr[t].current]
            /\ Return(t)
            /\ UNCHANGED afr
       ELSE /\ afr' = [afr EXCEPT ![t].current = count[Cont(t)]]
            /\ Goto(t, "reserve_cap")
            /\ UNCHANGED <<count, ret>>
    /\ UNCHANGED <<rcuVars, capacity, vec, mutex, heap, strs, cfr, apiVars>>

\* std::lock_guard guard{mutex};
resize_lock(t) ==
    /\ pc[t] = "resize"
    /\ mutex[Cont(t)] = 0
    /\ mutex' = [mutex EXCEPT ![Cont(t)] = t]
    /\ Goto(t, "resize_check")
    /\ UNCHANGED <<rcuVars, capacity, count, vec, heap, strs, frameVars, apiVars>>

\* resize without the test of the capacity under the mutex:
\* old_contents = vec.load_by_owner(); new_contents = Owner::alloc(new_capacity)
resize_check_always(t) ==
    /\ pc[t] = "resize_check"
    /\ heap' = Append(heap, Alloc(heap[vec[Cont(t)]].kind, 2 * afr[t].cap))
    /\ afr' = [afr EXCEPT ![t].old = vec[Cont(t)],
                          ![t].new = Len(heap) + 1,
                          ![t].j = 0]
    /\ Goto(t, "resize_copy")
    /\ UNCHANGED <<rcuVars, capacity, count, vec, mutex, strs, cfr, ret,
                   apiVars>>

\* if (capacity.load() != expected_capacity) return false;
\* old_contents = vec.load_by_owner(); new_contents = Owner::alloc(new_capacity)
resize_check(t) ==
    /\ pc[t] = "resize_check"
    /\ IF capacity[Cont(t)] # afr[t].cap
       THEN /\ mutex' = [mutex EXCEPT ![Cont(t)] = 0]
            /\ ret' = [ret EXCEPT ![t] = FALSE]
            /\ Return(t)
            /\ UNCHANGED <<heap, afr>>
       ELSE /\ heap' = Append(heap, Alloc(heap[vec[Cont(t)]].kind,
                                          2 * afr[t].cap))
            /\ afr' = [afr EXCEPT ![t].old = vec[Cont(t)],
                                  ![t].new = Len(heap) + 1,
                                  ![t].j = 0]
            /\ Goto(t, "resize_copy")
            /\ UNCHANGED <<mutex, ret>>
    /\ UNCHANGED <<rcuVars, capacity, count, vec, strs, cfr, apiVars>>

\* owner.copy(new_contents, old_contents, new_capacity, old_capacity):
\* one round of its for loop per step.  ConcurrentStringMap::copy
\* dereferences the key of every entry whose key is not NULL: a PENDING
\* key is no pointer to a string, and the process dies.
\* ConcurrentList::copy moves the entry, which leaves a null pointer in
\* the source.
resize_copy(t) ==
    /\ pc[t] = "resize_copy"
    /\ LET src == heap[afr[t].old].cells
           j == afr[t].j
       IN  IF j >= afr[t].cap
           THEN /\ Goto(t, "resize_vec")
                /\ UNCHANGED <<heap, afr>>
           ELSE IF heap[afr[t].old].kind = "set"
           THEN /\ heap' = [heap EXCEPT ![afr[t].new].cells =
                               CopySet(@, src, 2 * afr[t].cap, j)]
                /\ afr' = [afr EXCEPT ![t].j = @ + 1]
                /\ Goto(t, "resize_copy")
           ELSE IF heap[afr[t].old].kind \in {"list", "ilist"}
           THEN /\ heap' = [heap EXCEPT ![afr[t].new].cells[j] = src[j],
                                        ![afr[t].old].cells[j] = NULL]
                /\ afr' = [afr EXCEPT ![t].j = @ + 1]
                /\ Goto(t, "resize_copy")
           ELSE IF src[j].key = PENDING
           THEN /\ Abort
                /\ UNCHANGED <<heap, afr>>
           ELSE /\ \E hv \in (IF src[j].key = NULL THEN {0}
                               ELSE HashOf(src[j].key, 2 * afr[t].cap)) :
                      heap' = [heap EXCEPT ![afr[t].new].cells =
                                  CopyMap(@, src, 2 * afr[t].cap, j, hv)]
                /\ afr' = [afr EXCEPT ![t].j = @ + 1]
                /\ Goto(t, "resize_copy")
    /\ UNCHANGED <<rcuVars, capacity, count, vec, mutex, strs, cfr, ret,
                   apiVars>>

\* resize that stores the new capacity at the place where it is to
\* publish the new backing: capacity.store(new_capacity)
resize_vec_capacity(t) ==
    /\ pc[t] = "resize_vec"
    /\ capacity' = [capacity EXCEPT ![Cont(t)] = 2 * afr[t].cap]
    /\ Goto(t, "resize_cap")
    /\ UNCHANGED <<rcuVars, count, vec, mutex, heap, strs, frameVars, apiVars>>

\* vec.store(new_contents)
resize_vec(t) ==
    /\ pc[t] = "resize_vec"
    /\ vec' = [vec EXCEPT ![Cont(t)] = afr[t].new]
    /\ Goto(t, "resize_cap")
    /\ UNCHANGED <<rcuVars, capacity, count, mutex, heap, strs, frameVars, apiVars>>

\* capacity.store(new_capacity, release); synchronize_rcu();
resize_cap(t) ==
    /\ pc[t] = "resize_cap"
    /\ capacity' = [capacity EXCEPT ![Cont(t)] = 2 * afr[t].cap]
    /\ CallSynchronize(t, "resize_free")
    /\ UNCHANGED <<rcu_gp, depth, period, t_waiting, wake, threads_lock, l_gp,
                   gp, waiting, new_waiting, sidx, gp_left>>
    /\ UNCHANGED <<count, vec, mutex, heap, strs, frameVars, apiVars>>

\* delete[] old_contents; return true;
\* delete[] runs ~MapEntry() on every entry of a map's backing, which
\* deletes its key (delete of the PENDING pointer kills the process), and
\* ~ListEntry() on every entry of a list's backing, which deletes the Node
\* it points to and with it the backings of the Node's sets.  On a map
\* of std::unique_ptr<T> ~MapEntry() also deletes the T its value points
\* to, and with it the backing of that container.
resize_free(t) ==
    /\ pc[t] = "resize_free"
    /\ IF PENDING \in KeysOf(afr[t].old)
       THEN /\ Abort
            /\ UNCHANGED <<heap, strs, mutex, ret, afr, node>>
       ELSE /\ heap' = [b \in DOMAIN heap |->
                          IF \/ b = afr[t].old
                             \/ \E p \in NodesOf(afr[t].old) :
                                   \E c \in NodeSets(p) : b = vec[c]
                             \/ \E c \in ObjsOf(afr[t].old) : b = vec[c]
                          THEN [heap[b] EXCEPT !.freed = TRUE]
                          ELSE heap[b]]
            /\ node' = [p \in DOMAIN node |->
                          IF p \in NodesOf(afr[t].old)
                          THEN [node[p] EXCEPT !.freed = TRUE]
                          ELSE node[p]]
            /\ strs' = [p \in DOMAIN strs |->
                          IF p \in KeysOf(afr[t].old)
                          THEN [strs[p] EXCEPT !.freed = TRUE]
                          ELSE strs[p]]
            /\ mutex' = [mutex EXCEPT ![Cont(t)] = 0]
            /\ ret' = [ret EXCEPT ![t] = TRUE]
            /\ afr' = [afr EXCEPT ![t].old = 0, ![t].new = 0, ![t].j = 0,
                                  ![t].cap = 0]
            /\ Return(t)
    /\ UNCHANGED <<rcuVars, capacity, count, vec, cfr, ops, hist, gfr, todo, node_labels>>

\* the steps of ConcurrentArray
ArrayStep(t) ==
    \/ reserve_count(t)
    \/ reserve_cap(t)
    \/ reserve_cas(t)
    \/ resize_lock(t)
    \/ resize_check(t)
    \/ resize_copy(t)
    \/ resize_vec(t)
    \/ resize_cap(t)
    \/ resize_free(t)

----------------------------------------------------------------------------
(***************************************************************************)
(* ConcurrentHashSet<size_t>                                               *)
(***************************************************************************)
\* a value that is no key and not default_value
JUNK == -2

\* what a load of contents[i] can give to a thread that looks for key k in
\* backing b: the cell, or, when delete[] has freed the backing, any value:
\* default_value, k, or a value that is neither
SetLoad(b, i, k) ==
    IF heap[b].freed THEN {EMPTY, k, JUNK} ELSE {heap[b].cells[i]}

\* find_index: i = (i + 1) & (max_size() - 1), which loads capacity
sfind_cap(t) ==
    /\ pc[t] = "sfind"
    /\ cfr' = [cfr EXCEPT ![t].i = (@ + 1) % capacity[Cont(t)]]
    /\ Goto(t, "sfind_vec")
    /\ UNCHANGED <<rcuVars, memVars, afr, ret, apiVars>>

\* contents[i]: vec.load()
sfind_vec(t) ==
    /\ pc[t] = "sfind_vec"
    /\ cfr' = [cfr EXCEPT ![t].b = vec[Cont(t)]]
    /\ Goto(t, "sfind_cell")
    /\ UNCHANGED <<rcuVars, memVars, afr, ret, apiVars>>

\* value = contents[i].load(relaxed);
\* if (value == default_value || value == t) return i;
sfind_cell(t) ==
    /\ pc[t] = "sfind_cell"
    /\ \E value \in SetLoad(cfr[t].b, cfr[t].i, cfr[t].key) :
           IF value = EMPTY \/ value = cfr[t].key
           THEN Return(t)
           ELSE Goto(t, "sfind")
    /\ UNCHANGED <<rcuVars, memVars, frameVars, apiVars>>

\* add: contents[i] of the acquire load: vec.load()
sadd_vec(t) ==
    /\ pc[t] = "sadd_vec"
    /\ cfr' = [cfr EXCEPT ![t].b = vec[Cont(t)]]
    /\ Goto(t, "sadd_cell")
    /\ UNCHANGED <<rcuVars, memVars, afr, ret, apiVars>>

\* if (contents[i].load(acquire) == t)
sadd_cell(t) ==
    /\ pc[t] = "sadd_cell"
    /\ \E value \in SetLoad(cfr[t].b, cfr[t].i, cfr[t].key) :
           IF value = cfr[t].key
           THEN Goto(t, "sadd_drop")
           ELSE Goto(t, "sadd_vec2")
    /\ UNCHANGED <<rcuVars, memVars, frameVars, apiVars>>

\* contents.drop_reservation(); return false;
sadd_drop(t) ==
    /\ pc[t] = "sadd_drop"
    /\ count' = [count EXCEPT ![Cont(t)] = @ - 1]
    /\ ret' = [ret EXCEPT ![t] = FALSE]
    /\ Return(t)
    /\ UNCHANGED <<rcuVars, capacity, vec, mutex, heap, strs, cfr, afr, apiVars>>

\* contents[i] of the compare-exchange: vec.load()
sadd_vec2(t) ==
    /\ pc[t] = "sadd_vec2"
    /\ cfr' = [cfr EXCEPT ![t].b = vec[Cont(t)]]
    /\ Goto(t, "sadd_cas")
    /\ UNCHANGED <<rcuVars, memVars, afr, ret, apiVars>>

\* add with a reservation that is given back after the store as well:
\* on success contents.drop_reservation(); return true;
sadd_cas_drop(t) ==
    /\ pc[t] = "sadd_cas"
    /\ \E value \in SetLoad(cfr[t].b, cfr[t].i, cfr[t].key) :
           IF value = EMPTY
           THEN /\ heap' = IF heap[cfr[t].b].freed THEN heap
                           ELSE [heap EXCEPT
                                   ![cfr[t].b].cells[cfr[t].i] = cfr[t].key]
                /\ count' = [count EXCEPT ![Cont(t)] = @ - 1]
                /\ ret' = [ret EXCEPT ![t] = TRUE]
                /\ Return(t)
           ELSE /\ Call(t, "sfind", "sadd_vec")
                /\ UNCHANGED <<heap, count, ret>>
    /\ UNCHANGED <<rcuVars, capacity, vec, mutex, strs, cfr, afr, apiVars>>

\* while (!contents[i].compare_exchange_strong(desired, t)): on failure the
\* loop body runs again, i = find_index(t, i); on success return true.
\* A store into a backing that has been freed reaches no backing.
sadd_cas(t) ==
    /\ pc[t] = "sadd_cas"
    /\ \E value \in SetLoad(cfr[t].b, cfr[t].i, cfr[t].key) :
           IF value = EMPTY
           THEN /\ heap' = IF heap[cfr[t].b].freed THEN heap
                           ELSE [heap EXCEPT
                                   ![cfr[t].b].cells[cfr[t].i] = cfr[t].key]
                /\ ret' = [ret EXCEPT ![t] = TRUE]
                /\ Return(t)
           ELSE /\ Call(t, "sfind", "sadd_vec")
                /\ UNCHANGED <<heap, ret>>
    /\ UNCHANGED <<rcuVars, capacity, count, vec, mutex, strs, cfr, afr, apiVars>>

\* includes: contents[i]: vec.load()
sinc_vec(t) ==
    /\ pc[t] = "sinc_vec"
    /\ cfr' = [cfr EXCEPT ![t].b = vec[Cont(t)]]
    /\ Goto(t, "sinc_cell")
    /\ UNCHANGED <<rcuVars, memVars, afr, ret, apiVars>>

\* return contents[i].load(relaxed) == t;
sinc_cell(t) ==
    /\ pc[t] = "sinc_cell"
    /\ \E value \in SetLoad(cfr[t].b, cfr[t].i, cfr[t].key) :
           ret' = [ret EXCEPT ![t] = (value = cfr[t].key)]
    /\ Return(t)
    /\ UNCHANGED <<rcuVars, memVars, cfr, afr, apiVars>>

\* the steps of ConcurrentHashSet
SetStep(t) ==
    \/ sfind_cap(t)
    \/ sfind_vec(t)
    \/ sfind_cell(t)
    \/ sadd_vec(t)
    \/ sadd_cell(t)
    \/ sadd_drop(t)
    \/ sadd_vec2(t)
    \/ sadd_cas(t)
    \/ sinc_vec(t)
    \/ sinc_cell(t)

\* a call of ConcurrentHashSet::add(rcu, k) on container c: it starts with
\* contents.reserve(rcu, *this, 0.75); i = hash(k) - 1; find_index(k, i)
CallSetAdd(t, c, k, back) ==
    /\ cfr' = [cfr EXCEPT ![t] = [NoCfr EXCEPT !.c = c, !.op = "add",
                                               !.key = k, !.i = Hash(k) - 1]]
    /\ afr' = [afr EXCEPT ![t] = [NoAfr EXCEPT !.lf = 3]]
    /\ pc' = [pc EXCEPT ![t] = "reserve"]
    /\ stk' = [stk EXCEPT ![t] = <<"sfind", "sadd_vec">> \o back \o @]

\* a call of ConcurrentHashSet::includes(rcu, k) on container c
CallSetIncludes(t, c, k, back) ==
    /\ cfr' = [cfr EXCEPT ![t] = [NoCfr EXCEPT !.c = c, !.op = "includes",
                                               !.key = k, !.i = Hash(k) - 1]]
    /\ pc' = [pc EXCEPT ![t] = "sfind"]
    /\ stk' = [stk EXCEPT ![t] = <<"sinc_vec">> \o back \o @]

\* a thread that holds a backing pointer it loaded from vec and is about to
\* use it
UsesBacking(t) ==
    pc[t] \in {"sfind_cell", "sadd_cell", "sadd_cas", "sinc_cell"}

----------------------------------------------------------------------------
(***************************************************************************)
(* ConcurrentStringMap<size_t>                                             *)
(***************************************************************************)
\* what a thread that looks for key k sees when it loads the key of entry i
\* of backing b and, if that is a pointer to a string, compares the string
\* with k: "null", "pending", "eq" or "ne".  A load from a backing that
\* delete[] has freed can give any pointer, and the comparison with a
\* string that has been deleted any result.
KeyObs(b, i, k) ==
    IF heap[b].freed THEN {"null", "pending", "eq", "ne"}
    ELSE LET p == heap[b].cells[i].key
         IN  IF p = NULL THEN {"null"}
             ELSE IF p = PENDING THEN {"pending"}
             ELSE {IF eq THEN "eq" ELSE "ne" : eq \in KeyEq(p, k)}

\* what a load of e.value can give: the value, or any value when the
\* backing has been freed
ValLoad(b, i) ==
    IF heap[b].freed THEN {heap[b].cells[i].value, JUNK}
    ELSE {heap[b].cells[i].value}

\* find_index: i = (i + 1) & (max_size() - 1), which loads capacity
mfind_cap(t) ==
    /\ pc[t] = "mfind"
    /\ cfr' = [cfr EXCEPT ![t].i = (@ + 1) % capacity[Cont(t)]]
    /\ Goto(t, "mfind_vec")
    /\ UNCHANGED <<rcuVars, memVars, afr, ret, apiVars>>

\* contents[i]: vec.load(), at every round of the do loop
mfind_vec(t) ==
    /\ pc[t] = "mfind_vec"
    /\ cfr' = [cfr EXCEPT ![t].b = vec[Cont(t)]]
    /\ Goto(t, "mfind_key")
    /\ UNCHANGED <<rcuVars, memVars, afr, ret, apiVars>>

\* do this_key = contents[i].key.load(acquire); while (this_key == PENDING);
\* if (!this_key || *this_key == key) return i;
mfind_key(t) ==
    /\ pc[t] = "mfind_key"
    /\ \E o \in KeyObs(cfr[t].b, cfr[t].i, cfr[t].key) :
           CASE o = "pending" -> Goto(t, "mfind_vec")
             [] o = "ne" -> Goto(t, "mfind")
             [] OTHER -> Return(t)
    /\ UNCHANGED <<rcuVars, memVars, frameVars, apiVars>>

\* acquire: MapEntry<V> &e = contents[i]: vec.load()
macq_vec(t) ==
    /\ pc[t] = "macq_vec"
    /\ cfr' = [cfr EXCEPT ![t].b = vec[Cont(t)]]
    /\ Goto(t, "macq_key")
    /\ UNCHANGED <<rcuVars, memVars, afr, ret, apiVars>>

\* this_key = e.key.load(acquire); if (!this_key) the compare-exchange;
\* else if (this_key == PENDING || *this_key != key) continue, which is
\* find_index(key, h) again; else drop_reservation and return e
macq_key(t) ==
    /\ pc[t] = "macq_key"
    /\ \E o \in KeyObs(cfr[t].b, cfr[t].i, cfr[t].key) :
           CASE o = "null" -> Goto(t, "macq_cas") /\ UNCHANGED cfr
             [] o = "eq" -> Goto(t, "macq_drop") /\ UNCHANGED cfr
             [] OTHER -> /\ cfr' = [cfr EXCEPT ![t].i = cfr[t].h]
                         /\ Call(t, "mfind", "macq_vec")
    /\ UNCHANGED <<rcuVars, memVars, afr, ret, apiVars>>

\* acquire with a plain store of PENDING in place of the compare-exchange
macq_cas_store(t) ==
    /\ pc[t] = "macq_cas"
    /\ heap' = IF heap[cfr[t].b].freed THEN heap
               ELSE [heap EXCEPT ![cfr[t].b].cells[cfr[t].i].key = PENDING]
    /\ Return(t)
    /\ UNCHANGED <<rcuVars, capacity, count, vec, mutex, strs, cfr, afr, ret,
                   apiVars>>

\* if (e.key.compare_exchange_strong(this_key, PENDING)) return e; else the
\* for loop goes on with find_index(key, h)
macq_cas(t) ==
    /\ pc[t] = "macq_cas"
    /\ \E o \in KeyObs(cfr[t].b, cfr[t].i, cfr[t].key) :
           IF o = "null"
           THEN /\ heap' = IF heap[cfr[t].b].freed THEN heap
                           ELSE [heap EXCEPT
                                   ![cfr[t].b].cells[cfr[t].i].key = PENDING]
                /\ Return(t)
                /\ UNCHANGED cfr
           ELSE /\ cfr' = [cfr EXCEPT ![t].i = cfr[t].h]
                /\ Call(t, "mfind", "macq_vec")
                /\ UNCHANGED heap
    /\ UNCHANGED <<rcuVars, capacity, count, vec, mutex, strs, afr, ret, apiVars>>

\* contents.drop_reservation(); return e;
macq_drop(t) ==
    /\ pc[t] = "macq_drop"
    /\ count' = [count EXCEPT ![Cont(t)] = @ - 1]
    /\ Return(t)
    /\ UNCHANGED <<rcuVars, capacity, vec, mutex, heap, strs, frameVars, apiVars>>

\* add: if (e.key == PENDING)
madd_test(t) ==
    /\ pc[t] = "madd_test"
    /\ \E o \in KeyObs(cfr[t].b, cfr[t].i, cfr[t].key) :
           IF o = "pending"
           THEN Goto(t, IF cfr[t].op = "add" THEN "madd_value"
                        ELSE "madd_create")
           ELSE Goto(t, "madd_ret")
    /\ UNCHANGED <<rcuVars, memVars, frameVars, apiVars>>

\* e.value = MapEntry<V>::release_value(std::move(value));
madd_value(t) ==
    /\ pc[t] = "madd_value"
    /\ heap' = IF heap[cfr[t].b].freed THEN heap
               ELSE [heap EXCEPT
                       ![cfr[t].b].cells[cfr[t].i].value = cfr[t].val]
    /\ Goto(t, "madd_key")
    /\ UNCHANGED <<rcuVars, capacity, count, vec, mutex, strs, frameVars, apiVars>>

\* add(rcu, key): e.value = MapEntry<V>::create_value(), which is new T()
\* for a map of std::unique_ptr<T>: a ConcurrentList<size_t> for
\* nodes_by_file, a ConcurrentHashSet<size_t> for the label map
madd_create(t) ==
    /\ pc[t] = "madd_create"
    /\ LET v == Len(heap) + 1
           c == ObjCont(v)
       IN  /\ capacity' = capacity @@ (c :> GraphCap)
           /\ count' = count @@ (c :> 0)
           /\ mutex' = mutex @@ (c :> 0)
           /\ vec' = vec @@ (c :> v)
           /\ heap' = Append(IF heap[cfr[t].b].freed THEN heap
                             ELSE [heap EXCEPT
                                     ![cfr[t].b].cells[cfr[t].i].value = v],
                             Alloc(ValueKind(Cont(t)), GraphCap))
    /\ Goto(t, "madd_key")
    /\ UNCHANGED <<rcuVars, strs, frameVars, apiVars>>

\* e.key.store(new std::string(key), release);
madd_key(t) ==
    /\ pc[t] = "madd_key"
    /\ strs' = Append(strs, [s |-> cfr[t].key, freed |-> FALSE])
    /\ heap' = IF heap[cfr[t].b].freed THEN heap
               ELSE [heap EXCEPT
                       ![cfr[t].b].cells[cfr[t].i].key = Len(strs) + 1]
    /\ Goto(t, "madd_ret")
    /\ UNCHANGED <<rcuVars, capacity, count, vec, mutex, frameVars, apiVars>>

\* return e.value;  (of add and of both get)
madd_ret(t) ==
    /\ pc[t] \in {"madd_ret", "mget_val"}
    /\ \E v \in ValLoad(cfr[t].b, cfr[t].i) : ret' = [ret EXCEPT ![t] = v]
    /\ Return(t)
    /\ UNCHANGED <<rcuVars, memVars, cfr, afr, apiVars>>

\* get: MapEntry<V> &e = contents[i]: vec.load()
mget_vec(t) ==
    /\ pc[t] \in {"mget_vec", "mget1_vec"}
    /\ cfr' = [cfr EXCEPT ![t].b = vec[Cont(t)]]
    /\ Goto(t, IF pc[t] = "mget_vec" THEN "mget_key" ELSE "mget1_key")
    /\ UNCHANGED <<rcuVars, memVars, afr, ret, apiVars>>

\* get(rcu, key, if_absent): this_key = e.key.load(acquire);
\* if (this_key == PENDING) continue;
\* if (!this_key || *this_key != key) return if_absent; return e.value;
mget_key(t) ==
    /\ pc[t] = "mget_key"
    /\ \E o \in KeyObs(cfr[t].b, cfr[t].i, cfr[t].key) :
           CASE o = "pending" -> /\ cfr' = [cfr EXCEPT ![t].i = cfr[t].h]
                                 /\ Call(t, "mfind", "mget_vec")
                                 /\ UNCHANGED ret
             [] o = "eq" -> Goto(t, "mget_val") /\ UNCHANGED <<cfr, ret>>
             [] OTHER -> /\ ret' = [ret EXCEPT ![t] = cfr[t].val]
                         /\ Return(t)
                         /\ UNCHANGED cfr
    /\ UNCHANGED <<rcuVars, memVars, afr, apiVars>>

\* get(rcu, key): assert(this_key && this_key != PENDING && *this_key == key);
\* return e.value;
mget1_key(t) ==
    /\ pc[t] = "mget1_key"
    /\ \E o \in KeyObs(cfr[t].b, cfr[t].i, cfr[t].key) :
           IF o = "eq" THEN Goto(t, "mget_val") ELSE Abort
    /\ UNCHANGED <<rcuVars, memVars, frameVars, apiVars>>

\* the steps of ConcurrentStringMap<size_t>
MapStep(t) ==
    \/ mfind_cap(t)
    \/ mfind_vec(t)
    \/ mfind_key(t)
    \/ macq_vec(t)
    \/ macq_key(t)
    \/ macq_cas(t)
    \/ macq_drop(t)
    \/ madd_test(t)
    \/ madd_value(t)
    \/ madd_key(t)
    \/ madd_ret(t)
    \/ mget_vec(t)
    \/ mget_key(t)
    \/ mget1_key(t)

\* a call of ConcurrentStringMap::add(rcu, k, v) on container c: acquire
\* starts with contents.reserve(rcu, *this, 0.75); h = hash(k) - 1;
\* find_index(k, h)
CallMapAdd(t, c, k, v, back) ==
    /\ cfr' = [cfr EXCEPT ![t] = [NoCfr EXCEPT !.c = c, !.op = "add",
                                               !.key = k, !.val = v,
                                               !.h = StrHash(k) - 1,
                                               !.i = StrHash(k) - 1]]
    /\ afr' = [afr EXCEPT ![t] = [NoAfr EXCEPT !.lf = 3]]
    /\ pc' = [pc EXCEPT ![t] = "reserve"]
    /\ stk' = [stk EXCEPT ![t] = <<"mfind", "macq_vec", "madd_test">>
                                 \o back \o @]

\* a call of ConcurrentStringMap::add(rcu, k) on container c
CallMapAddNew(t, c, k, back) ==
    /\ cfr' = [cfr EXCEPT ![t] = [NoCfr EXCEPT !.c = c, !.op = "addnew",
                                               !.key = k,
                                               !.h = StrHash(k) - 1,
                                               !.i = StrHash(k) - 1]]
    /\ afr' = [afr EXCEPT ![t] = [NoAfr EXCEPT !.lf = 3]]
    /\ pc' = [pc EXCEPT ![t] = "reserve"]
    /\ stk' = [stk EXCEPT ![t] = <<"mfind", "macq_vec", "madd_test">>
                                 \o back \o @]

\* a call of ConcurrentStringMap::get(rcu, k, if_absent) on container c
CallMapGet(t, c, k, if_absent, back) ==
    /\ cfr' = [cfr EXCEPT ![t] = [NoCfr EXCEPT !.c = c, !.op = "get",
                                               !.key = k, !.val = if_absent,
                                               !.h = StrHash(k) - 1,
                                               !.i = StrHash(k) - 1]]
    /\ pc' = [pc EXCEPT ![t] = "mfind"]
    /\ stk' = [stk EXCEPT ![t] = <<"mget_vec">> \o back \o @]

\* a call of ConcurrentStringMap::get(rcu, k) on container c
CallMapGet1(t, c, k, back) ==
    /\ cfr' = [cfr EXCEPT ![t] = [NoCfr EXCEPT !.c = c, !.op = "get1",
                                               !.key = k,
                                               !.h = StrHash(k) - 1,
                                               !.i = StrHash(k) - 1]]
    /\ pc' = [pc EXCEPT ![t] = "mfind"]
    /\ stk' = [stk EXCEPT ![t] = <<"mget1_vec">> \o back \o @]

----------------------------------------------------------------------------
(***************************************************************************)
(* The graph API of cgraph.cc: struct Node, struct Graph and the graph_*   *)
(* functions.  Each function takes the reader lock of the calling thread's *)
(* handle (GET_RCU) and releases it when it returns.                       *)
(***************************************************************************)
\* the containers of struct Graph
LIST == <<"nodes_by_index", 0>>
NODES == <<"nodes", 0>>
BYUSER == <<"nodes_by_username", 0>>

\* the n-th map that new ConcurrentStringMap<...> has made for
\* Graph::node_labels
LabelMap(n) == <<"node_labels", n>>

\* the containers a new Graph has
GraphConts == {LIST, NODES, BYUSER, BYFILE, LabelMap(0)}

\* the if_absent graph_add_external_node and graph_get_node pass
ABSENT == -1

NoGfr == [op |-> "", name |-> "", i |-> 0, j |-> 0, call |-> FALSE,
          k |-> 0, b |-> 0, p |-> 0, res |-> 0]

\* no graph
InitNoGraph ==
    /\ node = <<>>
    /\ node_labels = <<"", 0>>
    /\ gfr = [t \in Threads |-> NoGfr]
    /\ todo = <<>>

\* new Graph: the three containers, each with its first backing
InitGraphMem ==
    /\ capacity = [c \in GraphConts |-> GraphCap]
    /\ count = [c \in GraphConts |-> 0]
    /\ vec = (LIST :> 1) @@ (NODES :> 2) @@ (BYUSER :> 3) @@ (BYFILE :> 4)
             @@ (LabelMap(0) :> 5)
    /\ mutex = [c \in GraphConts |-> 0]
    /\ heap = <<AllocList(GraphCap), AllocMap(GraphCap), AllocMap(GraphCap),
                AllocPtrMap(GraphCap), AllocPtrMap(GraphCap)>>
    /\ strs = <<>>
    /\ node = <<>>
    /\ node_labels = LabelMap(0)

\* return from a graph function: the guard goes out of scope
GReturn(t) == Call(t, "unlock", "graph_done")

\* what a load of contents[i].value can give in backing b of the list: the
\* entry, or, when delete[] has freed the backing, any pointer
ListLoad(b, i) ==
    IF heap[b].freed \/ i \notin DOMAIN heap[b].cells
    THEN {NULL} \cup DOMAIN node
    ELSE {heap[b].cells[i]}

\* g->nodes_by_index[k]: vec.load()
nbi_vec(t) ==
    /\ pc[t] = "nbi"
    /\ gfr' = [gfr EXCEPT ![t].b = vec[LIST]]
    /\ Goto(t, "nbi_cell")
    /\ UNCHANGED <<rcuVars, memVars, frameVars, ops, hist, node, node_labels, todo>>

\* g->nodes_by_index[k]->: the load of the entry; the caller dereferences
\* the pointer, and a null pointer kills the process
nbi_cell(t) ==
    /\ pc[t] = "nbi_cell"
    /\ \E p \in ListLoad(gfr[t].b, gfr[t].k) :
           IF p = NULL
           THEN Abort /\ UNCHANGED gfr
           ELSE gfr' = [gfr EXCEPT ![t].p = p] /\ Return(t)
    /\ UNCHANGED <<rcuVars, memVars, frameVars, ops, hist, node, node_labels, todo>>

\* graph_add_external_node, graph_get_node:
\* i = g->nodes_by_username.get(guard, s, -1)
g_user(t) ==
    /\ pc[t] = "g_user"
    /\ CallMapGet(t, BYUSER, gfr[t].name, ABSENT, <<"g_user_ret">>)
    /\ UNCHANGED <<rcuVars, memVars, afr, ret, apiVars>>

\* if (i != -1) return i;  i = g->nodes.get(guard, s, -1)
g_user_ret(t) ==
    /\ pc[t] = "g_user_ret"
    /\ IF ret[t] # ABSENT
       THEN /\ gfr' = [gfr EXCEPT ![t].res = ret[t]]
            /\ GReturn(t)
            /\ UNCHANGED cfr
       ELSE /\ CallMapGet(t, NODES, gfr[t].name, ABSENT, <<"g_name_ret">>)
            /\ UNCHANGED gfr
    /\ UNCHANGED <<rcuVars, memVars, afr, ret, ops, hist, node, node_labels, todo>>

\* graph_get_node: return g->nodes.get(guard, name, -1);
\* graph_add_external_node: if (i != -1) return i;
\* i = g->nodes_by_index.add(guard, std::unique_ptr<Node>(new Node(s))),
\* which starts with contents.reserve(rcu, *this)
g_name_ret(t) ==
    /\ pc[t] = "g_name_ret"
    /\ IF ret[t] # ABSENT \/ gfr[t].op = "get_node"
       THEN /\ gfr' = [gfr EXCEPT ![t].res = ret[t]]
            /\ GReturn(t)
            /\ UNCHANGED <<memVars, cfr, afr, node>>
       ELSE LET p == Len(node) + 1
                b == Len(heap)
            IN  /\ node' = Append(node, [name |-> gfr[t].name,
                                         username |-> "", file |-> "",
                                         line |-> -1,
                                         external |-> TRUE, freed |-> FALSE])
                /\ capacity' = capacity @@ [c \in NodeSets(p) |-> GraphCap]
                /\ count' = count @@ [c \in NodeSets(p) |-> 0]
                /\ mutex' = mutex @@ [c \in NodeSets(p) |-> 0]
                /\ vec' = vec @@ (<<"callers", p>> :> b + 1)
                              @@ (<<"calls", p>> :> b + 2)
                              @@ (<<"refs", p>> :> b + 3)
                /\ heap' = heap \o <<AllocSet(GraphCap), AllocSet(GraphCap),
                                     AllocSet(GraphCap)>>
                /\ gfr' = [gfr EXCEPT ![t].p = p]
                /\ cfr' = [cfr EXCEPT ![t] = [NoCfr EXCEPT !.c = LIST,
                                                           !.op = "add"]]
                /\ afr' = [afr EXCEPT ![t] = [NoAfr EXCEPT !.lf = 4]]
                /\ pc' = [pc EXCEPT ![t] = "reserve"]
                /\ stk' = [stk EXCEPT ![t] = <<"gae_vec">> \o @]
                /\ UNCHANGED strs
    /\ UNCHANGED <<rcuVars, ret, ops, hist, todo, node_labels>>

\* ConcurrentList::add: contents[i] with the i reserve has returned:
\* vec.load()
gae_vec(t) ==
    /\ pc[t] = "gae_vec"
    /\ gfr' = [gfr EXCEPT ![t].i = ret[t], ![t].b = vec[LIST]]
    /\ Goto(t, "gae_store")
    /\ UNCHANGED <<rcuVars, memVars, frameVars, ops, hist, node, node_labels, todo>>

\* contents[i].value = release_value(std::move(t)); return i;
\* return g->nodes.add(guard, s, i);
gae_store(t) ==
    /\ pc[t] = "gae_store"
    /\ heap' = IF heap[gfr[t].b].freed THEN heap
               ELSE [heap EXCEPT ![gfr[t].b].cells[gfr[t].i] = gfr[t].p]
    /\ CallMapAdd(t, NODES, gfr[t].name, gfr[t].i, <<"gae_ret">>)
    /\ UNCHANGED <<rcuVars, capacity, count, vec, mutex, strs, ret, apiVars>>

\* the value nodes.add has returned is returned
gae_ret(t) ==
    /\ pc[t] = "gae_ret"
    /\ gfr' = [gfr EXCEPT ![t].res = ret[t]]
    /\ GReturn(t)
    /\ UNCHANGED <<rcuVars, memVars, frameVars, ops, hist, node, node_labels, todo>>

\* graph_set_username, graph_set_defined, graph_is_node_external,
\* graph_has_call_edge, graph_add_edge: the first g->nodes_by_index[...]
g_node(t) ==
    /\ pc[t] = "g_node"
    /\ gfr' = [gfr EXCEPT ![t].k = IF gfr[t].op = "add_edge" THEN gfr[t].j
                                   ELSE gfr[t].i]
    /\ Call(t, "nbi", CASE gfr[t].op = "set_username" -> "gsu_file"
                        [] gfr[t].op = "set_defined" -> "gsd_store"
                        [] gfr[t].op = "is_node_external" -> "gne_load"
                        [] gfr[t].op = "has_call_edge" -> "ghc_inc"
                        [] gfr[t].op = "has_edge" -> "ghe_calls"
                        [] gfr[t].op = "set_location" -> "gsl_file"
                        [] OTHER -> "gadd_callers")
    /\ UNCHANGED <<rcuVars, memVars, frameVars, ops, hist, node, node_labels, todo>>

\* graph_set_username: if (!g->nodes_by_index[i]->file.empty()) {
\*   assert(username == g->nodes_by_index[i]->username); return; }
\* else the next g->nodes_by_index[i]
gsu_file(t) ==
    /\ pc[t] = "gsu_file"
    /\ IF node[gfr[t].p].file # ""
       THEN IF gfr[t].name = node[gfr[t].p].username
            THEN GReturn(t) ELSE Abort
       ELSE Call(t, "nbi", "gsu_store")
    /\ UNCHANGED <<rcuVars, memVars, frameVars, apiVars>>

\* g->nodes_by_index[i]->username = s;
\* g->nodes_by_username.add(guard, s, i);
gsu_store(t) ==
    /\ pc[t] = "gsu_store"
    /\ node' = [node EXCEPT ![gfr[t].p].username = gfr[t].name]
    /\ CallMapAdd(t, BYUSER, gfr[t].name, gfr[t].i, <<"g_ret">>)
    /\ UNCHANGED <<rcuVars, memVars, ret, ops, hist, gfr, todo, node_labels>>

\* graph_set_defined: g->nodes_by_index[i]->external = false;
gsd_store(t) ==
    /\ pc[t] = "gsd_store"
    /\ node' = [node EXCEPT ![gfr[t].p].external = FALSE]
    /\ GReturn(t)
    /\ UNCHANGED <<rcuVars, memVars, frameVars, ops, hist, gfr, todo, node_labels>>

\* graph_is_node_external: return g->nodes_by_index[i]->external; the
\* load gives any value when the Node has been deleted
gne_load(t) ==
    /\ pc[t] = "gne_load"
    /\ \E v \in (IF node[gfr[t].p].freed THEN BOOLEAN
                 ELSE {node[gfr[t].p].external}) :
           gfr' = [gfr EXCEPT ![t].res = v]
    /\ GReturn(t)
    /\ UNCHANGED <<rcuVars, memVars, frameVars, ops, hist, node, node_labels, todo>>

\* graph_has_call_edge:
\* return g->nodes_by_index[src]->calls.includes(guard, dest);
ghc_inc(t) ==
    /\ pc[t] = "ghc_inc"
    /\ CallSetIncludes(t, <<"calls", gfr[t].p>>, gfr[t].j, <<"g_ret">>)
    /\ UNCHANGED <<rcuVars, memVars, afr, ret, apiVars>>

\* graph_add_edge: g->nodes_by_index[callee]->callers.add(guard, caller);
gadd_callers(t) ==
    /\ pc[t] = "gadd_callers"
    /\ CallSetAdd(t, <<"callers", gfr[t].p>>, gfr[t].i, <<"gadd_caller">>)
    /\ UNCHANGED <<rcuVars, memVars, ret, apiVars>>

\* the same with the Node of the callee
gadd_caller_callee(t) ==
    /\ pc[t] = "gadd_caller"
    /\ gfr' = [gfr EXCEPT ![t].k = gfr[t].j]
    /\ Call(t, "nbi", "gadd_calls")
    /\ UNCHANGED <<rcuVars, memVars, frameVars, ops, hist, node, node_labels,
                   todo>>

\* g->nodes_by_index[caller]
gadd_caller(t) ==
    /\ pc[t] = "gadd_caller"
    /\ gfr' = [gfr EXCEPT ![t].k = gfr[t].i]
    /\ Call(t, "nbi", "gadd_calls")
    /\ UNCHANGED <<rcuVars, memVars, frameVars, ops, hist, node, node_labels, todo>>

\* if (is_call) ...->calls.add(guard, callee);
\* else ...->refs.add(guard, callee);
gadd_calls(t) ==
    /\ pc[t] = "gadd_calls"
    /\ CallSetAdd(t, <<IF gfr[t].call THEN "calls" ELSE "refs", gfr[t].p>>,
                  gfr[t].j, <<"g_ret">>)
    /\ UNCHANGED <<rcuVars, memVars, ret, apiVars>>

\* graph_has_edge:
\* if (g->nodes_by_index[src]->calls.includes(guard, dest))
ghe_calls(t) ==
    /\ pc[t] = "ghe_calls"
    /\ CallSetIncludes(t, <<"calls", gfr[t].p>>, gfr[t].j, <<"ghe_test">>)
    /\ UNCHANGED <<rcuVars, memVars, afr, ret, apiVars>>

\* return true;  else g->nodes_by_index[dest]
ghe_test(t) ==
    /\ pc[t] = "ghe_test"
    /\ IF ret[t] = TRUE
       THEN /\ gfr' = [gfr EXCEPT ![t].res = TRUE]
            /\ GReturn(t)
       ELSE /\ gfr' = [gfr EXCEPT ![t].k = gfr[t].j]
            /\ Call(t, "nbi", "ghe_ext")
    /\ UNCHANGED <<rcuVars, memVars, frameVars, ops, hist, node, node_labels,
                   todo>>

\* the same without the test of external
ghe_ext_unchecked(t) ==
    /\ pc[t] = "ghe_ext"
    /\ IF ~gfr[t].call
       THEN /\ gfr' = [gfr EXCEPT ![t].res = FALSE]
            /\ GReturn(t)
       ELSE /\ gfr' = [gfr EXCEPT ![t].k = gfr[t].i]
            /\ Call(t, "nbi", "ghe_refs")
    /\ UNCHANGED <<rcuVars, memVars, frameVars, ops, hist, node, node_labels,
                   todo>>

\* if (g->nodes_by_index[dest]->external) return false;
\* return ref_ok && g->nodes_by_index[src]...: the load of external gives
\* any value when the Node has been deleted; ref_ok is the field call
ghe_ext(t) ==
    /\ pc[t] = "ghe_ext"
    /\ \E v \in (IF node[gfr[t].p].freed THEN BOOLEAN
                 ELSE {node[gfr[t].p].external}) :
           IF v \/ ~gfr[t].call
           THEN /\ gfr' = [gfr EXCEPT ![t].res = FALSE]
                /\ GReturn(t)
           ELSE /\ gfr' = [gfr EXCEPT ![t].k = gfr[t].i]
                /\ Call(t, "nbi", "ghe_refs")
    /\ UNCHANGED <<rcuVars, memVars, frameVars, ops, hist, node, node_labels,
                   todo>>

\* ...->refs.includes(guard, dest);
ghe_refs(t) ==
    /\ pc[t] = "ghe_refs"
    /\ CallSetIncludes(t, <<"refs", gfr[t].p>>, gfr[t].j, <<"g_ret">>)
    /\ UNCHANGED <<rcuVars, memVars, afr, ret, apiVars>>

\* graph_set_location: if (!g->nodes_by_index[i]->file.empty()) return;
\* else the next g->nodes_by_index[i]
gsl_file(t) ==
    /\ pc[t] = "gsl_file"
    /\ IF node[gfr[t].p].file # ""
       THEN GReturn(t)
       ELSE Call(t, "nbi", "gsl_store")
    /\ UNCHANGED <<rcuVars, memVars, frameVars, apiVars>>

\* g->nodes_by_index[i]->file = s; and the next g->nodes_by_index[i]
gsl_store(t) ==
    /\ pc[t] = "gsl_store"
    /\ node' = [node EXCEPT ![gfr[t].p].file = gfr[t].name]
    /\ Call(t, "nbi", "gsl_line")
    /\ UNCHANGED <<rcuVars, memVars, frameVars, ops, hist, gfr, todo,
                   node_labels>>

\* g->nodes_by_index[i]->line = line;
\* auto nodes = g->nodes_by_file.add(guard, s);
gsl_line(t) ==
    /\ pc[t] = "gsl_line"
    /\ node' = [node EXCEPT ![gfr[t].p].line = gfr[t].j]
    /\ CallMapAddNew(t, BYFILE, gfr[t].name, <<"gsl_list">>)
    /\ UNCHANGED <<rcuVars, memVars, ret, ops, hist, gfr, todo, node_labels>>

\* nodes->add(guard, i): ConcurrentList<size_t>::add starts with
\* contents.reserve(rcu, *this); a pointer that is that of no container
\* kills the process
gsl_list(t) ==
    /\ pc[t] = "gsl_list"
    /\ IF ObjCont(ret[t]) \notin DOMAIN vec
       THEN Abort /\ UNCHANGED <<cfr, afr>>
       ELSE /\ cfr' = [cfr EXCEPT ![t] = [NoCfr EXCEPT !.c = ObjCont(ret[t]),
                                                       !.op = "add"]]
            /\ afr' = [afr EXCEPT ![t] = [NoAfr EXCEPT !.lf = 4]]
            /\ pc' = [pc EXCEPT ![t] = "reserve"]
            /\ stk' = [stk EXCEPT ![t] = <<"gsl_vec">> \o @]
    /\ UNCHANGED <<rcuVars, memVars, ret, apiVars>>

\* contents[i] with the i reserve has returned: vec.load()
gsl_vec(t) ==
    /\ pc[t] = "gsl_vec"
    /\ gfr' = [gfr EXCEPT ![t].k = ret[t], ![t].b = vec[Cont(t)]]
    /\ Goto(t, "gsl_cell")
    /\ UNCHANGED <<rcuVars, memVars, frameVars, ops, hist, node, node_labels,
                   todo>>

\* contents[i].value = release_value(std::move(t)); return i;
gsl_cell(t) ==
    /\ pc[t] = "gsl_cell"
    /\ heap' = IF heap[gfr[t].b].freed THEN heap
               ELSE [heap EXCEPT ![gfr[t].b].cells[gfr[t].k] = gfr[t].i]
    /\ GReturn(t)
    /\ UNCHANGED <<rcuVars, capacity, count, vec, mutex, strs, frameVars,
                   apiVars>>

\* graph_all_nodes_for_file: nodes = g->nodes_by_file.get(guard, s, NULL)
gnf_get(t) ==
    /\ pc[t] = "gnf_get"
    /\ CallMapGet(t, BYFILE, gfr[t].name, NULL, <<"gnf_iter">>)
    /\ UNCHANGED <<rcuVars, memVars, afr, ret, apiVars>>

\* graph_add_label, graph_has_label, graph_all_nodes_for_label: the load
\* of g->node_labels, and add(guard, s) or get(guard, s, NULL) on that map
gl_load(t) ==
    /\ pc[t] = "gl_load"
    /\ gfr' = [gfr EXCEPT ![t].k = node_labels[2]]
    /\ CASE gfr[t].op = "add_label" ->
              CallMapAddNew(t, node_labels, gfr[t].name, <<"gal_set">>)
         [] gfr[t].op = "has_label" ->
              /\ CallMapGet(t, node_labels, gfr[t].name, NULL, <<"ghl_test">>)
              /\ UNCHANGED afr
         [] OTHER ->
              /\ CallMapGet(t, node_labels, gfr[t].name, NULL, <<"gnf_iter">>)
              /\ UNCHANGED afr
    /\ UNCHANGED <<rcuVars, memVars, ret, ops, hist, node, node_labels, todo>>

\* if (!nodes) return new Iter();
\* return new Iter(nodes->begin(), nodes->end()): begin is &contents[0] and
\* end is &contents[size()] of a list, &contents[max_size()] of a set; the
\* guard goes out of scope and the caller calls iter_next
gnf_iter(t) ==
    /\ pc[t] = "gnf_iter"
    /\ IF ret[t] = NULL
       THEN /\ gfr' = [gfr EXCEPT ![t].b = 0, ![t].k = 0]
            /\ Call(t, "unlock", "iter_next")
       ELSE IF ObjCont(ret[t]) \notin DOMAIN vec
       THEN Abort /\ UNCHANGED gfr
       ELSE LET c == ObjCont(ret[t])
            IN  /\ gfr' = [gfr EXCEPT
                             ![t].b = vec[c],
                             ![t].k = IF heap[vec[c]].kind = "ilist"
                                      THEN count[c] ELSE capacity[c]]
                /\ Call(t, "unlock", "iter_next")
    /\ UNCHANGED <<rcuVars, memVars, frameVars, ops, hist, node, node_labels,
                   todo>>

\* the values the calls of iter_next give until it returns -1: those of
\* the cells from..(end - 1) that are not (size_t)-1
RECURSIVE IterVals(_, _, _)
IterVals(cells, from, end) ==
    IF from >= end THEN <<>>
    ELSE (IF cells[from] = EMPTY THEN <<>> ELSE <<cells[from]>>)
         \o IterVals(cells, from + 1, end)

\* the caller calls iter_next(i) until it returns -1; the loads from a
\* backing that has been freed give any values
iter_next(t) ==
    /\ pc[t] = "iter_next"
    /\ \E r \in (IF gfr[t].b = 0 THEN {<<>>}
                 ELSE IF heap[gfr[t].b].freed THEN {<<>>, <<JUNK>>}
                 ELSE {IterVals(heap[gfr[t].b].cells, 0, gfr[t].k)}) :
           gfr' = [gfr EXCEPT ![t].res = r]
    /\ Goto(t, "graph_done")
    /\ UNCHANGED <<rcuVars, memVars, frameVars, ops, hist, node, node_labels,
                   todo>>

\* graph_add_label: nodes->add(guard, i);
gal_set(t) ==
    /\ pc[t] = "gal_set"
    /\ IF ObjCont(ret[t]) \notin DOMAIN vec
       THEN Abort /\ UNCHANGED <<cfr, afr>>
       ELSE CallSetAdd(t, ObjCont(ret[t]), gfr[t].i, <<"g_ret">>)
    /\ UNCHANGED <<rcuVars, memVars, ret, apiVars>>

\* graph_has_label: return nodes && nodes->includes(guard, i);
ghl_test(t) ==
    /\ pc[t] = "ghl_test"
    /\ IF ret[t] = NULL
       THEN /\ gfr' = [gfr EXCEPT ![t].res = FALSE]
            /\ GReturn(t)
            /\ UNCHANGED cfr
       ELSE IF ObjCont(ret[t]) \notin DOMAIN vec
       THEN Abort /\ UNCHANGED <<cfr, gfr>>
       ELSE /\ CallSetIncludes(t, ObjCont(ret[t]), gfr[t].i, <<"g_ret">>)
            /\ UNCHANGED gfr
    /\ UNCHANGED <<rcuVars, memVars, afr, ret, ops, hist, node, node_labels,
                   todo>>

\* graph_reset_labels: auto old = g->node_labels;
grl_load(t) ==
    /\ pc[t] = "grl_load"
    /\ gfr' = [gfr EXCEPT ![t].k = node_labels[2]]
    /\ Goto(t, "grl_store")
    /\ UNCHANGED <<rcuVars, memVars, frameVars, ops, hist, node, node_labels,
                   todo>>

\* g->node_labels = new ConcurrentStringMap<...>(); synchronize_rcu();
grl_store(t) ==
    /\ pc[t] = "grl_store"
    /\ LET n == Cardinality({c \in DOMAIN vec : c[1] = "node_labels"})
           c == LabelMap(n)
       IN  /\ capacity' = capacity @@ (c :> GraphCap)
           /\ count' = count @@ (c :> 0)
           /\ mutex' = mutex @@ (c :> 0)
           /\ vec' = vec @@ (c :> Len(heap) + 1)
           /\ heap' = Append(heap, AllocPtrMap(GraphCap))
           /\ node_labels' = c
    /\ CallSynchronize(t, "grl_delete")
    /\ UNCHANGED <<rcu_gp, depth, period, t_waiting, wake, threads_lock, l_gp,
                   gp, waiting, new_waiting, sidx, gp_left>>
    /\ UNCHANGED <<strs, frameVars, ops, hist, node, gfr, todo>>

\* delete old: ~ConcurrentArray() calls Owner::destroy(vec), whose delete[]
\* runs ~MapEntry() on every entry: it deletes the key and the set the
\* value points to.  The delete of a string that has been deleted before
\* is undefined: the process dies or goes on.
grl_delete(t) ==
    /\ pc[t] = "grl_delete"
    /\ LET b == vec[LabelMap(gfr[t].k)]
       IN  \/ /\ \/ PENDING \in KeysOf(b)
                 \/ heap[b].freed
                 \/ \E p \in KeysOf(b) \ {NULL, PENDING} : strs[p].freed
              /\ Abort
              /\ UNCHANGED <<heap, strs>>
           \/ /\ PENDING \notin KeysOf(b)
              /\ heap' = [a \in DOMAIN heap |->
                            IF a = b \/ \E c \in ObjsOf(b) : a = vec[c]
                            THEN [heap[a] EXCEPT !.freed = TRUE]
                            ELSE heap[a]]
              /\ strs' = [p \in DOMAIN strs |->
                            IF p \in KeysOf(b)
                            THEN [strs[p] EXCEPT !.freed = TRUE]
                            ELSE strs[p]]
              /\ Goto(t, "graph_done")
    /\ UNCHANGED <<rcuVars, capacity, count, vec, mutex, frameVars, apiVars>>

\* the function returns, with the value of its last call if it has one
g_ret(t) ==
    /\ pc[t] = "g_ret"
    /\ gfr' = [gfr EXCEPT ![t].res = ret[t]]
    /\ GReturn(t)
    /\ UNCHANGED <<rcuVars, memVars, frameVars, ops, hist, node, node_labels, todo>>

\* the steps of cgraph.cc
GraphStep(t) ==
    \/ nbi_vec(t)
    \/ nbi_cell(t)
    \/ g_user(t)
    \/ g_user_ret(t)
    \/ g_name_ret(t)
    \/ gae_vec(t)
    \/ gae_store(t)
    \/ gae_ret(t)
    \/ g_node(t)
    \/ gsu_file(t)
    \/ gsu_store(t)
    \/ gsd_store(t)
    \/ gne_load(t)
    \/ ghc_inc(t)
    \/ gadd_callers(t)
    \/ gadd_caller(t)
    \/ gadd_calls(t)
    \/ g_ret(t)

\* a call of a graph function by a thread that is in no function: o holds
\* the function and its arguments (name, file or label; i, or caller i and
\* callee j, or src i and dest j, or i and line j; is_call); GET_RCU takes
\* the lock first, graph_reset_labels has no GET_RCU
GraphCall(t, o) ==
    /\ pc[t] = "idle"
    /\ gfr' = [gfr EXCEPT ![t] = [NoGfr EXCEPT !.op = o.op, !.name = o.name,
                                               !.i = o.i, !.j = o.j,
                                               !.call = o.call]]
    /\ IF o.op = "reset_labels"
       THEN Goto(t, "grl_load")
       ELSE Call(t, "lock",
                 CASE o.op \in {"add_external", "get_node"} -> "g_user"
                   [] o.op = "nodes_for_file" -> "gnf_get"
                   [] o.op \in {"add_label", "has_label",
                                "nodes_for_label"} -> "gl_load"
                   [] OTHER -> "g_node")

\* the arguments of a call
Op(op, name, i, j, call) ==
    [op |-> op, name |-> name, i |-> i, j |-> j, call |-> call]

----------------------------------------------------------------------------
(***************************************************************************)
(* SpecRcu: threads that open and close reader regions (std::unique_lock   *)
(* on their handle, as GET_RCU does) and call synchronize_rcu() outside a  *)
(* region (as ConcurrentArray::resize and graph_reset_labels do).          *)
(***************************************************************************)
\* std::unique_lock{*rcu}: rcu->lock()
RegionBegin(t) ==
    /\ pc[t] = "idle"
    /\ Call(t, "lock", "region")
    /\ UNCHANGED <<rcuVars, otherVars>>

\* the guard goes out of scope: rcu->unlock()
RegionEnd(t) ==
    /\ pc[t] = "region"
    /\ Call(t, "unlock", "idle")
    /\ UNCHANGED <<rcuVars, otherVars>>

\* synchronize_rcu() called by a thread that is in no region
Synchronize(t) ==
    /\ pc[t] = "idle"
    /\ rcu_gp < MaxGP
    /\ CallSynchronize(t, "idle")
    /\ UNCHANGED <<rcu_gp, depth, period, t_waiting, wake, threads_lock, l_gp,
                   gp, waiting, new_waiting, sidx, gp_left>>
    /\ UNCHANGED otherVars

ThreadRcu(t) ==
    \/ RegionBegin(t)
    \/ RegionEnd(t)
    \/ Synchronize(t)
    \/ RcuStep(t)

InitNoMem ==
    /\ capacity = <<>>
    /\ count = <<>>
    /\ vec = <<>>
    /\ mutex = <<>>
    /\ heap = <<>>
    /\ strs = <<>>
    /\ cfr = [t \in Threads |-> NoCfr]
    /\ afr = [t \in Threads |-> NoAfr]
    /\ ret = [t \in Threads |-> 0]
    /\ ops = [t \in Threads |-> 0]
    /\ hist = <<>>
    /\ InitNoGraph

InitRcu ==
    /\ pc = [t \in Threads |-> "idle"]
    /\ stk = [t \in Threads |-> <<>>]
    /\ InitRcuVars
    /\ InitNoMem

NextRcu ==
    \E t \in Threads :
        \/ RegionBegin(t)
        \/ RegionEnd(t)
        \/ Synchronize(t)
        \/ lock_depth(t)
        \/ lock_load(t)
        \/ lock_store(t)
        \/ unlock_store(t)
        \/ unlock_test(t)
        \/ unlock_clear(t)
        \/ unlock_wake(t)
        \/ sync_lock(t)
        \/ sync_gp(t)
        \/ sync_drop(t)
        \/ sync_start(t)
        \/ sync_check(t)
        \/ sync_wait(t)

SpecRcu == InitRcu /\ [][NextRcu]_vars

\* every thread that can take a step eventually takes one
SpecRcuFair == SpecRcu /\ \A t \in Threads : WF_vars(ThreadRcu(t))

----------------------------------------------------------------------------
(***************************************************************************)
(* SpecSet: the threads of a program that share one ConcurrentHashSet      *)
(* constructed with capacity 4 (as tests/conc_set_test does) and call add  *)
(* and includes on it inside reader regions.                               *)
(***************************************************************************)
\* ConcurrentHashSet<size_t> ca(4)
SetCapacity == 4

\* the keys the threads pass: 1 and 5 collide in a table of 4 cells
SetKeys == {1, 2, 5}

\* operations per thread
MaxSetOps == 2

\* bool i = ca.add(rcu, k)
SetAdd(t) ==
    /\ pc[t] = "region"
    /\ ops[t] < MaxSetOps
    /\ \E k \in SetKeys : CallSetAdd(t, "ca", k, <<"set_done">>)
    /\ ops' = [ops EXCEPT ![t] = @ + 1]
    /\ UNCHANGED <<rcuVars, memVars, ret, hist, graphVars>>

\* ca.includes(rcu, k)
SetIncludes(t) ==
    /\ pc[t] = "region"
    /\ ops[t] < MaxSetOps
    /\ \E k \in SetKeys : CallSetIncludes(t, "ca", k, <<"set_done">>)
    /\ ops' = [ops EXCEPT ![t] = @ + 1]
    /\ UNCHANGED <<rcuVars, memVars, afr, ret, hist, graphVars>>

\* the call has returned: hist[k] counts the calls of add(k) that have
\* returned, and those that returned true
SetDone(t) ==
    /\ pc[t] = "set_done"
    /\ hist' = IF cfr[t].op = "add"
               THEN [hist EXCEPT ![cfr[t].key] =
                        [n |-> @.n + 1,
                         true |-> @.true + (IF ret[t] THEN 1 ELSE 0)]]
               ELSE hist
    /\ cfr' = [cfr EXCEPT ![t] = NoCfr]
    /\ afr' = [afr EXCEPT ![t] = NoAfr]
    /\ ret' = [ret EXCEPT ![t] = 0]
    /\ Goto(t, "region")
    /\ UNCHANGED <<rcuVars, memVars, ops, graphVars>>

InitSet ==
    /\ pc = [t \in Threads |-> "idle"]
    /\ stk = [t \in Threads |-> <<>>]
    /\ InitRcuVars
    /\ capacity = [c \in {"ca"} |-> SetCapacity]
    /\ count = [c \in {"ca"} |-> 0]
    /\ vec = [c \in {"ca"} |-> 1]
    /\ mutex = [c \in {"ca"} |-> 0]
    /\ heap = <<AllocSet(SetCapacity)>>
    /\ strs = <<>>
    /\ cfr = [t \in Threads |-> NoCfr]
    /\ afr = [t \in Threads |-> NoAfr]
    /\ ret = [t \in Threads |-> 0]
    /\ ops = [t \in Threads |-> 0]
    /\ hist = [k \in SetKeys |-> [n |-> 0, true |-> 0]]
    /\ InitNoGraph

NextSet ==
    \E t \in Threads :
        \/ RegionBegin(t)
        \/ RegionEnd(t)
        \/ SetAdd(t)
        \/ SetIncludes(t)
        \/ SetDone(t)
        \/ RcuStep(t)
        \/ ArrayStep(t)
        \/ SetStep(t)

SpecSet == InitSet /\ [][NextSet]_vars

\* no operation is in progress on any thread
Quiet == \A t \in Threads : pc[t] \in {"idle", "region"}

\* the result of includes(k) run alone on container c in the present state
RECURSIVE FindIndex(_, _, _, _)
FindIndex(cells, n, k, i) ==
    LET j == (i + 1) % n
    IN  IF cells[j] = EMPTY \/ cells[j] = k THEN j
        ELSE FindIndex(cells, n, k, j)

Includes(c, k) ==
    heap[vec[c]].cells[FindIndex(heap[vec[c]].cells, capacity[c], k,
                                 Hash(k) - 1)] = k

----------------------------------------------------------------------------
(***************************************************************************)
(* SpecMap: the threads of a program that share one                        *)
(* ConcurrentStringMap<size_t> constructed with capacity 4 and filled with *)
(* add("abc", 111) and add("def", 333) before the threads start (as        *)
(* tests/conc_map_test does), and call add and get on it inside reader     *)
(* regions.                                                                *)
(***************************************************************************)
MapCapacity == 4

\* what add(k, v) run alone makes of the entries cells, p being the string
\* it allocates
SeqAdd(cells, n, k, p, v) ==
    [cells EXCEPT ![ProbeNull(cells, n, StrHash(k) - 1)] =
                      [key |-> p, value |-> v]]

\* the keys the threads pass, those of tests/conc_map_test: "abc" and "def"
\* collide in a table of 4 entries
MapKeys == {"abc", "def", "ghi", "jkl"}

\* the keys the threads look up
MapGetKeys == {"abc"}

\* the if_absent the threads pass to get
MapAbsent == 999

\* operations of all threads together
MaxMapOps == 2

MapOps == ops[1] + ops[2]

\* i = ca.add(rcu, k, v), with a value v that no other call passes
MapAdd(t) ==
    /\ pc[t] = "region"
    /\ MapOps < MaxMapOps
    /\ \E k \in MapKeys :
           CallMapAdd(t, "ca", k, 10 * t + ops[t] + 1, <<"map_done">>)
    /\ ops' = [ops EXCEPT ![t] = @ + 1]
    /\ UNCHANGED <<rcuVars, memVars, ret, hist, graphVars>>

\* ca.get(rcu, k, 999); hist.seen[t] is what the calls of add(k) that have
\* returned before this call have returned
MapGet(t) ==
    /\ pc[t] = "region"
    /\ MapOps < MaxMapOps
    /\ \E k \in MapGetKeys :
           /\ CallMapGet(t, "ca", k, MapAbsent, <<"map_done">>)
           /\ hist' = [hist EXCEPT !.seen[t] = hist.add[k].vals]
    /\ ops' = [ops EXCEPT ![t] = @ + 1]
    /\ UNCHANGED <<rcuVars, memVars, afr, ret, graphVars>>

\* ca.get(rcu, k), of a key k that a call of add has returned for
MapGet1(t) ==
    /\ pc[t] = "region"
    /\ MapOps < MaxMapOps
    /\ \E k \in MapGetKeys :
           /\ hist.add[k].n > 0
           /\ CallMapGet1(t, "ca", k, <<"map_done">>)
           /\ hist' = [hist EXCEPT !.seen[t] = hist.add[k].vals]
    /\ ops' = [ops EXCEPT ![t] = @ + 1]
    /\ UNCHANGED <<rcuVars, memVars, afr, ret, graphVars>>

\* the call has returned: hist.add[k] counts the calls of add(k) that have
\* returned and holds what they returned; hist.miss holds the keys for
\* which a get that started after an add had returned has returned
\* something else than what the add returned
MapDone(t) ==
    /\ pc[t] = "map_done"
    /\ LET k == cfr[t].key
       IN  hist' = IF cfr[t].op = "add"
                   THEN [hist EXCEPT !.add[k] =
                            [n |-> @.n + 1, vals |-> @.vals \cup {ret[t]}]]
                   ELSE [hist EXCEPT
                           !.seen[t] = {},
                           !.miss = IF hist.seen[t] # {}
                                       /\ ret[t] \notin hist.seen[t]
                                    THEN @ \cup {k} ELSE @]
    /\ cfr' = [cfr EXCEPT ![t] = NoCfr]
    /\ afr' = [afr EXCEPT ![t] = NoAfr]
    /\ ret' = [ret EXCEPT ![t] = 0]
    /\ Goto(t, "region")
    /\ UNCHANGED <<rcuVars, memVars, ops, graphVars>>

InitMap ==
    /\ pc = [t \in Threads |-> "idle"]
    /\ stk = [t \in Threads |-> <<>>]
    /\ InitRcuVars
    /\ capacity = [c \in {"ca"} |-> MapCapacity]
    /\ count = [c \in {"ca"} |-> 2]
    /\ vec = [c \in {"ca"} |-> 1]
    /\ mutex = [c \in {"ca"} |-> 0]
    /\ heap = <<[AllocMap(MapCapacity) EXCEPT !.cells =
                   SeqAdd(SeqAdd(@, MapCapacity, "abc", 1, 111),
                          MapCapacity, "def", 2, 333)]>>
    /\ strs = <<[s |-> "abc", freed |-> FALSE], [s |-> "def", freed |-> FALSE]>>
    /\ cfr = [t \in Threads |-> NoCfr]
    /\ afr = [t \in Threads |-> NoAfr]
    /\ ret = [t \in Threads |-> 0]
    /\ ops = [t \in Threads |-> 0]
    /\ hist = [add |-> [k \in MapKeys |->
                           CASE k = "abc" -> [n |-> 1, vals |-> {111}]
                             [] k = "def" -> [n |-> 1, vals |-> {333}]
                             [] OTHER -> [n |-> 0, vals |-> {}]],
               seen |-> [t \in Threads |-> {}],
               miss |-> {}]
    /\ InitNoGraph

NextMap ==
    \E t \in Threads :
        \/ RegionBegin(t)
        \/ RegionEnd(t)
        \/ MapAdd(t)
        \/ MapGet(t)
        \/ MapGet1(t)
        \/ MapDone(t)
        \/ RcuStep(t)
        \/ ArrayStep(t)
        \/ MapStep(t)

SpecMap == InitMap /\ [][NextMap]_vars

\* the results get(k, if_absent) run alone can give when it probes the
\* entries cells from i on: find_index stops at a NULL key or at a key it
\* finds equal, and get compares that key once more
RECURSIVE GetFrom(_, _, _, _, _)
GetFrom(cells, n, k, i, if_absent) ==
    LET j == (i + 1) % n
        p == cells[j].key
    IN  IF p = NULL THEN {if_absent}
        ELSE IF p = PENDING THEN {}
        ELSE (IF TRUE \in KeyEq(p, k) THEN {cells[j].value} ELSE {})
             \cup (IF KeyEq(p, k) = BOOLEAN THEN {if_absent} ELSE {})
             \cup (IF FALSE \in KeyEq(p, k)
                   THEN GetFrom(cells, n, k, j, if_absent) ELSE {})

MapGetResults(c, k, if_absent) ==
    GetFrom(heap[vec[c]].cells, capacity[c], k, StrHash(k) - 1, if_absent)

\* the keys for which a call of add has returned
Added == {k \in MapKeys : hist.add[k].n > 0}

----------------------------------------------------------------------------
(***************************************************************************)
(* Programs that share one Graph.  The main thread first makes the calls   *)
(* of todo, one after the other, then the threads call graph functions     *)
(* concurrently.  hist holds what the calls have returned.                 *)
(***************************************************************************)
GraphNames == {"a", "b", "c", "d", "e"}

\* the file names and the labels of the programs
FileNames == {"f", "g", "h", "i"}
LabelNames == {"p", "q", "r", "s"}

InitGraph(script) ==
    /\ pc = [t \in Threads |-> "idle"]
    /\ stk = [t \in Threads |-> <<>>]
    /\ InitRcuVars
    /\ InitGraphMem
    /\ cfr = [t \in Threads |-> NoCfr]
    /\ afr = [t \in Threads |-> NoAfr]
    /\ ret = [t \in Threads |-> 0]
    /\ ops = [t \in Threads |-> 0]
    /\ gfr = [t \in Threads |-> NoGfr]
    /\ todo = script
    /\ hist = [idx |-> {},
               extern |-> [n \in GraphNames |-> {}],
               got |-> [n \in GraphNames |-> {}],
               unstable |-> {},
               edges |-> {},
               lost |-> {},
               sawfalse |-> {},
               backtrue |-> {},
               loc |-> [i \in 0..(GraphCap - 1) |-> <<"", -1>>],
               byfile |-> [f \in FileNames |-> <<>>],
               user |-> [n \in GraphNames |-> ABSENT],
               labels |-> {},
               seen |-> [t \in Threads |-> {}]]

\* hist holds what the calls that have returned tell: the indices
\* returned for a name (extern, got, idx), the edges added, and what the
\* operation table makes of the locations (loc, byfile), usernames (user)
\* and labels set by the calls, in the order of their returns.
\* What the calls that have returned before the call o starts tell about
\* its result: the indices graph_get_node has returned for the name, that
\* graph_add_edge has returned for the edge, that graph_is_node_external
\* has returned false for the node
Seen(o) ==
    CASE o.op = "get_node" -> hist.got[o.name]
      [] o.op = "has_call_edge" ->
            IF <<o.i, o.j, TRUE>> \in hist.edges THEN {TRUE} ELSE {}
      [] o.op = "is_node_external" ->
            IF o.i \in hist.sawfalse THEN {FALSE} ELSE {}
      [] OTHER -> {}

\* the main thread makes the next call of todo
Setup(t) ==
    /\ t = 1
    /\ todo # <<>>
    /\ GraphCall(t, Head(todo))
    /\ todo' = Tail(todo)
    /\ hist' = [hist EXCEPT !.seen[t] = Seen(Head(todo))]
    /\ UNCHANGED <<rcuVars, memVars, frameVars, ops, node, node_labels>>

\* thread t calls o
FreeCall(t, o) ==
    /\ todo = <<>>
    /\ GraphCall(t, o)
    /\ ops' = [ops EXCEPT ![t] = @ + 1]
    /\ hist' = [hist EXCEPT !.seen[t] = Seen(o)]
    /\ UNCHANGED <<rcuVars, memVars, frameVars, node, node_labels, todo>>

\* the call has returned
GraphDone(t) ==
    /\ pc[t] = "graph_done"
    /\ LET o == gfr[t]
           r == o.res
           late == hist.seen[t] # {} /\ r \notin hist.seen[t]
       IN  hist' =
             CASE o.op = "add_external" ->
                    [hist EXCEPT !.extern[o.name] = @ \cup {r},
                                 !.idx = @ \cup ({r} \ {ABSENT, JUNK})]
               [] o.op = "get_node" ->
                    [hist EXCEPT !.got[o.name] = @ \cup ({r} \ {ABSENT}),
                                 !.unstable = IF late THEN @ \cup {o.name}
                                              ELSE @,
                                 !.seen[t] = {}]
               [] o.op = "add_edge" ->
                    [hist EXCEPT !.edges = @ \cup {<<o.i, o.j, o.call>>}]
               [] o.op = "has_call_edge" ->
                    [hist EXCEPT !.lost = IF late THEN @ \cup {<<o.i, o.j>>}
                                          ELSE @,
                                 !.seen[t] = {}]
               [] o.op = "is_node_external" ->
                    [hist EXCEPT !.sawfalse = IF r THEN @ ELSE @ \cup {o.i},
                                 !.backtrue = IF late THEN @ \cup {o.i}
                                              ELSE @,
                                 !.seen[t] = {}]
               [] o.op = "set_location" /\ hist.loc[o.i][1] = "" ->
                    [hist EXCEPT !.loc[o.i] = <<o.name, o.j>>,
                                 !.byfile[o.name] = Append(@, o.i)]
               [] o.op = "set_username" /\ hist.loc[o.i][1] = "" ->
                    [hist EXCEPT !.user[o.name] = o.i]
               [] o.op = "add_label" ->
                    [hist EXCEPT !.labels = @ \cup {<<o.i, o.name>>}]
               [] o.op = "reset_labels" ->
                    [hist EXCEPT !.labels = {}]
               [] OTHER -> hist
    /\ gfr' = [gfr EXCEPT ![t] = NoGfr]
    /\ cfr' = [cfr EXCEPT ![t] = NoCfr]
    /\ afr' = [afr EXCEPT ![t] = NoAfr]
    /\ ret' = [ret EXCEPT ![t] = 0]
    /\ Goto(t, "idle")
    /\ UNCHANGED <<rcuVars, memVars, ops, node, node_labels, todo>>

\* calls the threads have started
GraphOps == ops[1] + ops[2]

\* the Node pointer at index i of the list, as a thread that runs alone
\* reads it
NodeAt(i) == heap[vec[LIST]].cells[i]

(***************************************************************************)
(* SpecNames: after add_external of "a", "b" and "c" and get_node("a") the *)
(* threads call graph_add_external_node, graph_get_node and                *)
(* graph_set_username.                                                     *)
(***************************************************************************)
\* calls of all threads together
MaxNameOps == 2

NameScript == <<Op("add_external", "a", 0, 0, FALSE),
                Op("add_external", "b", 0, 0, FALSE),
                Op("add_external", "c", 0, 0, FALSE),
                Op("get_node", "a", 0, 0, FALSE)>>

\* the names the threads pass
NameArgs == {"a", "d"}

AddExternal(t) ==
    /\ GraphOps < MaxNameOps
    /\ \E n \in NameArgs : FreeCall(t, Op("add_external", n, 0, 0, FALSE))

GetNode(t) ==
    /\ GraphOps < MaxNameOps
    /\ \E n \in NameArgs : FreeCall(t, Op("get_node", n, 0, 0, FALSE))

SetUsername(t) ==
    /\ GraphOps < MaxNameOps
    /\ \E i \in hist.idx : \E n \in NameArgs :
           FreeCall(t, Op("set_username", n, i, 0, FALSE))

InitNames == InitGraph(NameScript)

NextNames ==
    \E t \in Threads :
        \/ Setup(t)
        \/ AddExternal(t)
        \/ GetNode(t)
        \/ SetUsername(t)
        \/ GraphDone(t)
        \/ RcuStep(t)
        \/ ArrayStep(t)
        \/ mfind_cap(t)
        \/ mfind_vec(t)
        \/ mfind_key(t)
        \/ macq_vec(t)
        \/ macq_key(t)
        \/ macq_cas(t)
        \/ macq_drop(t)
        \/ madd_test(t)
        \/ madd_value(t)
        \/ madd_key(t)
        \/ madd_ret(t)
        \/ mget_vec(t)
        \/ mget_key(t)
        \/ nbi_vec(t)
        \/ nbi_cell(t)
        \/ g_user(t)
        \/ g_user_ret(t)
        \/ g_name_ret(t)
        \/ gae_vec(t)
        \/ gae_store(t)
        \/ gae_ret(t)
        \/ g_node(t)
        \/ gsu_file(t)
        \/ gsu_store(t)
        \/ g_ret(t)

SpecNames == InitNames /\ [][NextNames]_vars

(***************************************************************************)
(* SpecEdges: after add_external of "a", "b" and "c", the call edges       *)
(* 0 -> 0 and 0 -> 1 and the reference 1 -> 0, the threads call            *)
(* graph_add_edge and graph_has_call_edge on node 0, whose calls set grows *)
(* at the reservation that follows the third.                              *)
(***************************************************************************)
\* calls of all threads together
MaxEdgeOps == 3

EdgeScript == <<Op("add_external", "a", 0, 0, FALSE),
                Op("add_external", "b", 0, 0, FALSE),
                Op("add_external", "c", 0, 0, FALSE),
                Op("add_edge", "", 0, 0, TRUE),
                Op("add_edge", "", 0, 1, TRUE),
                Op("add_edge", "", 1, 0, FALSE)>>

\* the callees the threads pass
EdgeArgs == {1, 2}

AddEdge(t) ==
    /\ GraphOps < MaxEdgeOps
    /\ \E j \in EdgeArgs : FreeCall(t, Op("add_edge", "", 0, j, TRUE))

HasCallEdge(t) ==
    /\ GraphOps < MaxEdgeOps
    /\ \E j \in EdgeArgs : FreeCall(t, Op("has_call_edge", "", 0, j, FALSE))

InitEdges == InitGraph(EdgeScript)

NextEdges ==
    \E t \in Threads :
        \/ Setup(t)
        \/ AddEdge(t)
        \/ HasCallEdge(t)
        \/ GraphDone(t)
        \/ RcuStep(t)
        \/ ArrayStep(t)
        \/ SetStep(t)
        \/ mfind_cap(t)
        \/ mfind_vec(t)
        \/ mfind_key(t)
        \/ macq_vec(t)
        \/ macq_key(t)
        \/ macq_cas(t)
        \/ madd_test(t)
        \/ madd_value(t)
        \/ madd_key(t)
        \/ madd_ret(t)
        \/ mget_vec(t)
        \/ mget_key(t)
        \/ nbi_vec(t)
        \/ nbi_cell(t)
        \/ g_user(t)
        \/ g_user_ret(t)
        \/ g_name_ret(t)
        \/ gae_vec(t)
        \/ gae_store(t)
        \/ gae_ret(t)
        \/ g_node(t)
        \/ ghc_inc(t)
        \/ gadd_callers(t)
        \/ gadd_caller(t)
        \/ gadd_calls(t)
        \/ g_ret(t)

SpecEdges == InitEdges /\ [][NextEdges]_vars

\* the edges whose graph_add_edge has returned and that a reader that runs
\* alone in the present state does not find
EdgesLost ==
    {e \in hist.edges :
        ~ /\ Includes(<<"callers", NodeAt(e[2])>>, e[1])
          /\ Includes(<<IF e[3] THEN "calls" ELSE "refs", NodeAt(e[1])>>,
                      e[2])}

(***************************************************************************)
(* SpecFlags: after add_external of "a", "b", "c" and "d",                 *)
(* graph_set_defined(0) and graph_is_node_external(0) the threads call     *)
(* graph_is_node_external, graph_set_defined and                           *)
(* graph_add_external_node("e"), whose node is the one nodes_by_index      *)
(* grows for.                                                              *)
(***************************************************************************)
\* calls of all threads together
MaxFlagOps == 2

FlagScript == <<Op("add_external", "a", 0, 0, FALSE),
                Op("add_external", "b", 0, 0, FALSE),
                Op("add_external", "c", 0, 0, FALSE),
                Op("add_external", "d", 0, 0, FALSE),
                Op("set_defined", "", 0, 0, FALSE),
                Op("is_node_external", "", 0, 0, FALSE)>>

\* the indices the threads pass
FlagArgs == {0, 1}

AddNode(t) ==
    /\ GraphOps < MaxFlagOps
    /\ FreeCall(t, Op("add_external", "e", 0, 0, FALSE))

SetDefined(t) ==
    /\ GraphOps < MaxFlagOps
    /\ \E i \in FlagArgs : FreeCall(t, Op("set_defined", "", i, 0, FALSE))

IsNodeExternal(t) ==
    /\ GraphOps < MaxFlagOps
    /\ \E i \in FlagArgs :
           FreeCall(t, Op("is_node_external", "", i, 0, FALSE))

InitFlags == InitGraph(FlagScript)

NextFlags ==
    \E t \in Threads :
        \/ Setup(t)
        \/ AddNode(t)
        \/ SetDefined(t)
        \/ IsNodeExternal(t)
        \/ GraphDone(t)
        \/ RcuStep(t)
        \/ ArrayStep(t)
        \/ mfind_cap(t)
        \/ mfind_vec(t)
        \/ mfind_key(t)
        \/ macq_vec(t)
        \/ macq_key(t)
        \/ macq_cas(t)
        \/ macq_drop(t)
        \/ madd_test(t)
        \/ madd_value(t)
        \/ madd_key(t)
        \/ madd_ret(t)
        \/ mget_vec(t)
        \/ mget_key(t)
        \/ nbi_vec(t)
        \/ nbi_cell(t)
        \/ g_user(t)
        \/ g_user_ret(t)
        \/ g_name_ret(t)
        \/ gae_vec(t)
        \/ gae_store(t)
        \/ gae_ret(t)
        \/ g_node(t)
        \/ gsd_store(t)
        \/ gne_load(t)

SpecFlags == InitFlags /\ [][NextFlags]_vars

(***************************************************************************)
(* SpecHasEdge: after add_external of "a", "b" and "c" and the call edges  *)
(* from 0 to 0, 1 and 2 the threads call graph_add_edge,                   *)
(* graph_set_defined, graph_has_edge and graph_has_call_edge, one call at  *)
(* a time.  The calls set of node 0 grows at the first graph_add_edge of a *)
(* call edge from 0.                                                       *)
(***************************************************************************)
\* calls of all threads together
MaxHasEdgeOps == 4

\* no call is in progress
NoCall == \A t \in Threads : pc[t] = "idle"

\* the steps of minircu.h and minircu.cc a thread takes when no other
\* thread is in a reader region
SeqRcuStep(t) ==
    \/ lock_depth(t)
    \/ lock_load(t)
    \/ lock_store(t)
    \/ unlock_store(t)
    \/ unlock_test(t)
    \/ sync_lock(t)
    \/ sync_gp(t)
    \/ sync_drop(t)
    \/ sync_start(t)
    \/ sync_check(t)

\* thread t calls o while no call is in progress
SeqCall(t, o) == NoCall /\ FreeCall(t, o)

HasEdgeScript == <<Op("add_external", "a", 0, 0, FALSE),
                   Op("add_external", "b", 0, 0, FALSE),
                   Op("add_external", "c", 0, 0, FALSE),
                   Op("add_edge", "", 0, 0, TRUE),
                   Op("add_edge", "", 0, 1, TRUE),
                   Op("add_edge", "", 0, 2, TRUE)>>

\* the nodes the threads pass
HasEdgeArgs == {0, 1}

SeqAddEdge(t) ==
    /\ GraphOps < MaxHasEdgeOps
    /\ \E i, j \in HasEdgeArgs : \E call \in BOOLEAN :
           SeqCall(t, Op("add_edge", "", i, j, call))

SeqSetDefined(t) ==
    /\ GraphOps < MaxHasEdgeOps
    /\ \E i \in HasEdgeArgs : SeqCall(t, Op("set_defined", "", i, 0, FALSE))

SeqHasEdge(t) ==
    /\ GraphOps < MaxHasEdgeOps
    /\ \E i, j \in HasEdgeArgs : \E ref_ok \in BOOLEAN :
           SeqCall(t, Op("has_edge", "", i, j, ref_ok))

SeqHasCallEdge(t) ==
    /\ GraphOps < MaxHasEdgeOps
    /\ \E i, j \in HasEdgeArgs :
           SeqCall(t, Op("has_call_edge", "", i, j, FALSE))

InitHasEdge == InitGraph(HasEdgeScript)

NextHasEdge ==
    \E t \in Threads :
        \/ Setup(t)
        \/ SeqAddEdge(t)
        \/ SeqSetDefined(t)
        \/ SeqHasEdge(t)
        \/ SeqHasCallEdge(t)
        \/ GraphDone(t)
        \/ SeqRcuStep(t)
        \/ ArrayStep(t)
        \/ SetStep(t)
        \/ mfind_cap(t)
        \/ mfind_vec(t)
        \/ mfind_key(t)
        \/ macq_vec(t)
        \/ macq_key(t)
        \/ macq_cas(t)
        \/ madd_test(t)
        \/ madd_value(t)
        \/ madd_key(t)
        \/ madd_ret(t)
        \/ mget_vec(t)
        \/ mget_key(t)
        \/ nbi_vec(t)
        \/ nbi_cell(t)
        \/ g_user(t)
        \/ g_user_ret(t)
        \/ g_name_ret(t)
        \/ gae_vec(t)
        \/ gae_store(t)
        \/ gae_ret(t)
        \/ g_node(t)
        \/ gsd_store(t)
        \/ ghc_inc(t)
        \/ ghe_calls(t)
        \/ ghe_test(t)
        \/ ghe_ext(t)
        \/ ghe_refs(t)
        \/ gadd_callers(t)
        \/ gadd_caller(t)
        \/ gadd_calls(t)
        \/ g_ret(t)

SpecHasEdge == InitHasEdge /\ [][NextHasEdge]_vars

\* graph_add_edge(a, b, is_call) has returned
Edge(a, b, is_call) == <<a, b, is_call>> \in hist.edges

\* the sets graph_add_edge(a, b, is_call) inserts into
EdgeSets(a, b, is_call) ==
    {<<"callers", NodeAt(b)>>,
     <<IF is_call THEN "calls" ELSE "refs", NodeAt(a)>>}

(***************************************************************************)
(* SpecFiles: after add_external of "a", "b", "c" and "d" and               *)
(* graph_set_location of the first three nodes in the files "f", "g" and   *)
(* "h", one thread at a time calls graph_set_location and                  *)
(* graph_all_nodes_for_file; nodes_by_file grows at the reservation that   *)
(* follows the third.                                                      *)
(***************************************************************************)
\* calls of all threads together
MaxFileOps == 2

FileScript == <<Op("add_external", "a", 0, 0, FALSE),
                Op("add_external", "b", 0, 0, FALSE),
                Op("add_external", "c", 0, 0, FALSE),
                Op("add_external", "d", 0, 0, FALSE),
                Op("set_location", "f", 0, 1, FALSE),
                Op("set_location", "g", 1, 1, FALSE),
                Op("set_location", "h", 2, 1, FALSE)>>

\* the nodes and the files the threads pass
FileArgs == {0, 3}
FileArgNames == {"f", "i"}

SeqSetLocation(t) ==
    /\ GraphOps < MaxFileOps
    /\ \E i \in FileArgs : \E f \in FileArgNames :
           SeqCall(t, Op("set_location", f, i, 2, FALSE))

SeqNodesForFile(t) ==
    /\ GraphOps < MaxFileOps
    /\ \E f \in FileArgNames \cup {"z"} :
           SeqCall(t, Op("nodes_for_file", f, 0, 0, FALSE))

InitFiles == InitGraph(FileScript)

NextFiles ==
    \E t \in Threads :
        \/ Setup(t)
        \/ SeqSetLocation(t)
        \/ SeqNodesForFile(t)
        \/ GraphDone(t)
        \/ SeqRcuStep(t)
        \/ ArrayStep(t)
        \/ mfind_cap(t)
        \/ mfind_vec(t)
        \/ mfind_key(t)
        \/ macq_vec(t)
        \/ macq_key(t)
        \/ macq_cas(t)
        \/ macq_drop(t)
        \/ madd_test(t)
        \/ madd_value(t)
        \/ madd_create(t)
        \/ madd_key(t)
        \/ madd_ret(t)
        \/ mget_vec(t)
        \/ mget_key(t)
        \/ nbi_vec(t)
        \/ nbi_cell(t)
        \/ g_user(t)
        \/ g_user_ret(t)
        \/ g_name_ret(t)
        \/ gae_vec(t)
        \/ gae_store(t)
        \/ gae_ret(t)
        \/ g_node(t)
        \/ gsl_file(t)
        \/ gsl_store(t)
        \/ gsl_line(t)
        \/ gsl_list(t)
        \/ gsl_vec(t)
        \/ gsl_cell(t)
        \/ gnf_get(t)
        \/ gnf_iter(t)
        \/ iter_next(t)

SpecFiles == InitFiles /\ [][NextFiles]_vars

(***************************************************************************)
(* SpecLoc: after add_external of "a" and "b" the threads call             *)
(* graph_set_location on one node at the same time.                        *)
(***************************************************************************)
\* calls of all threads together
MaxLocOps == 2

LocScript == <<Op("add_external", "a", 0, 0, FALSE),
               Op("add_external", "b", 0, 0, FALSE)>>

\* the node and the files the threads pass
LocArgs == {1}
LocArgNames == {"f", "g"}

SetLocation(t) ==
    /\ GraphOps < MaxLocOps
    /\ \E i \in LocArgs : \E f \in LocArgNames :
           FreeCall(t, Op("set_location", f, i, 2, FALSE))

InitLoc == InitGraph(LocScript)

NextLoc ==
    \E t \in Threads :
        \/ Setup(t)
        \/ SetLocation(t)
        \/ GraphDone(t)
        \/ lock_depth(t)
        \/ lock_load(t)
        \/ lock_store(t)
        \/ unlock_store(t)
        \/ unlock_test(t)
        \/ reserve_count(t)
        \/ reserve_cap(t)
        \/ reserve_cas(t)
        \/ mfind_cap(t)
        \/ mfind_vec(t)
        \/ mfind_key(t)
        \/ macq_vec(t)
        \/ macq_key(t)
        \/ macq_cas(t)
        \/ macq_drop(t)
        \/ madd_test(t)
        \/ madd_value(t)
        \/ madd_create(t)
        \/ madd_key(t)
        \/ madd_ret(t)
        \/ mget_vec(t)
        \/ mget_key(t)
        \/ nbi_vec(t)
        \/ nbi_cell(t)
        \/ g_user(t)
        \/ g_user_ret(t)
        \/ g_name_ret(t)
        \/ gae_vec(t)
        \/ gae_store(t)
        \/ gae_ret(t)
        \/ g_node(t)
        \/ gsl_file(t)
        \/ gsl_store(t)
        \/ gsl_line(t)
        \/ gsl_list(t)
        \/ gsl_vec(t)
        \/ gsl_cell(t)

SpecLoc == InitLoc /\ [][NextLoc]_vars

(***************************************************************************)
(* SpecYield: after add_external of "a" and "b" the threads call           *)
(* graph_set_location on node 1 and graph_all_nodes_for_file at the same   *)
(* time.                                                                   *)
(***************************************************************************)
\* calls of all threads together
MaxYieldOps == 2

YieldScript == <<Op("add_external", "a", 0, 0, FALSE),
                 Op("add_external", "b", 0, 0, FALSE)>>

\* the node and the file the threads pass
YieldArgs == {1}
YieldArgNames == {"f"}

YieldSetLocation(t) ==
    /\ GraphOps < MaxYieldOps
    /\ \E i \in YieldArgs : \E f \in YieldArgNames :
           FreeCall(t, Op("set_location", f, i, 2, FALSE))

NodesForFile(t) ==
    /\ GraphOps < MaxYieldOps
    /\ \E f \in YieldArgNames :
           FreeCall(t, Op("nodes_for_file", f, 0, 0, FALSE))

InitYield == InitGraph(YieldScript)

NextYield ==
    \E t \in Threads :
        \/ Setup(t)
        \/ YieldSetLocation(t)
        \/ NodesForFile(t)
        \/ GraphDone(t)
        \/ lock_depth(t)
        \/ lock_load(t)
        \/ lock_store(t)
        \/ unlock_store(t)
        \/ unlock_test(t)
        \/ reserve_count(t)
        \/ reserve_cap(t)
        \/ reserve_cas(t)
        \/ mfind_cap(t)
        \/ mfind_vec(t)
        \/ mfind_key(t)
        \/ macq_vec(t)
        \/ macq_key(t)
        \/ macq_cas(t)
        \/ macq_drop(t)
        \/ madd_test(t)
        \/ madd_value(t)
        \/ madd_create(t)
        \/ madd_key(t)
        \/ madd_ret(t)
        \/ mget_vec(t)
        \/ mget_key(t)
        \/ nbi_vec(t)
        \/ nbi_cell(t)
        \/ g_user(t)
        \/ g_user_ret(t)
        \/ g_name_ret(t)
        \/ gae_vec(t)
        \/ gae_store(t)
        \/ gae_ret(t)
        \/ g_node(t)
        \/ gsl_file(t)
        \/ gsl_store(t)
        \/ gsl_line(t)
        \/ gsl_list(t)
        \/ gsl_vec(t)
        \/ gsl_cell(t)
        \/ gnf_get(t)
        \/ gnf_iter(t)
        \/ iter_next(t)

SpecYield == InitYield /\ [][NextYield]_vars

(***************************************************************************)
(* SpecUsers: after add_external of "a" and "b", one thread at a time      *)
(* calls graph_set_username, graph_set_location,                           *)
(* graph_add_external_node and graph_get_node.                             *)
(***************************************************************************)
\* calls of all threads together
MaxUserOps == 3

UserScript == <<Op("add_external", "a", 0, 0, FALSE),
                Op("add_external", "b", 0, 0, FALSE)>>

\* the nodes and the names the threads pass
UserArgs == {0, 1}
UserArgNames == {"d", "e"}

SeqSetUsername(t) ==
    /\ GraphOps < MaxUserOps
    /\ \E i \in UserArgs : \E u \in UserArgNames :
           SeqCall(t, Op("set_username", u, i, 0, FALSE))

SeqSetFile(t) ==
    /\ GraphOps < MaxUserOps
    /\ \E i \in UserArgs : SeqCall(t, Op("set_location", "f", i, 1, FALSE))

SeqAddExternal(t) ==
    /\ GraphOps < MaxUserOps
    /\ \E n \in UserArgNames \cup {"a"} :
           SeqCall(t, Op("add_external", n, 0, 0, FALSE))

SeqGetNode(t) ==
    /\ GraphOps < MaxUserOps
    /\ \E n \in UserArgNames \cup {"a"} :
           SeqCall(t, Op("get_node", n, 0, 0, FALSE))

InitUsers == InitGraph(UserScript)

NextUsers ==
    \E t \in Threads :
        \/ Setup(t)
        \/ SeqSetUsername(t)
        \/ SeqSetFile(t)
        \/ SeqAddExternal(t)
        \/ SeqGetNode(t)
        \/ GraphDone(t)
        \/ lock_depth(t)
        \/ lock_load(t)
        \/ lock_store(t)
        \/ unlock_store(t)
        \/ unlock_test(t)
        \/ reserve_count(t)
        \/ reserve_cap(t)
        \/ reserve_cas(t)
        \/ mfind_cap(t)
        \/ mfind_vec(t)
        \/ mfind_key(t)
        \/ macq_vec(t)
        \/ macq_key(t)
        \/ macq_cas(t)
        \/ macq_drop(t)
        \/ madd_test(t)
        \/ madd_value(t)
        \/ madd_create(t)
        \/ madd_key(t)
        \/ madd_ret(t)
        \/ mget_vec(t)
        \/ mget_key(t)
        \/ nbi_vec(t)
        \/ nbi_cell(t)
        \/ g_user(t)
        \/ g_user_ret(t)
        \/ g_name_ret(t)
        \/ gae_vec(t)
        \/ gae_store(t)
        \/ gae_ret(t)
        \/ g_node(t)
        \/ gsu_file(t)
        \/ gsu_store(t)
        \/ gsl_file(t)
        \/ gsl_store(t)
        \/ gsl_line(t)
        \/ gsl_list(t)
        \/ gsl_vec(t)
        \/ gsl_cell(t)
        \/ g_ret(t)

SpecUsers == InitUsers /\ [][NextUsers]_vars

(***************************************************************************)
(* SpecLabelSeq: after add_external of "a" and "b", a label, a             *)
(* graph_reset_labels and three more labels, one thread at a time calls    *)
(* graph_add_label, graph_has_label, graph_all_nodes_for_label and         *)
(* graph_reset_labels; the label map grows at the reservation that follows *)
(* the third label.                                                        *)
(***************************************************************************)
\* calls of all threads together
MaxLabelSeqOps == 2

LabelSeqScript == <<Op("add_external", "a", 0, 0, FALSE),
                    Op("add_external", "b", 0, 0, FALSE),
                    Op("add_label", "p", 0, 0, FALSE),
                    Op("reset_labels", "", 0, 0, FALSE),
                    Op("add_label", "p", 0, 0, FALSE),
                    Op("add_label", "q", 0, 0, FALSE),
                    Op("add_label", "r", 1, 0, FALSE)>>

\* the nodes and the labels the threads pass
LabelArgs == {0, 1}
LabelArgNames == {"p", "s"}

SeqAddLabel(t) ==
    /\ GraphOps < MaxLabelSeqOps
    /\ \E i \in LabelArgs : \E l \in LabelArgNames :
           SeqCall(t, Op("add_label", l, i, 0, FALSE))

SeqHasLabel(t) ==
    /\ GraphOps < MaxLabelSeqOps
    /\ \E i \in LabelArgs : \E l \in LabelArgNames :
           SeqCall(t, Op("has_label", l, i, 0, FALSE))

SeqNodesForLabel(t) ==
    /\ GraphOps < MaxLabelSeqOps
    /\ \E l \in LabelArgNames :
           SeqCall(t, Op("nodes_for_label", l, 0, 0, FALSE))

SeqResetLabels(t) ==
    /\ GraphOps < MaxLabelSeqOps
    /\ SeqCall(t, Op("reset_labels", "", 0, 0, FALSE))

InitLabelSeq == InitGraph(LabelSeqScript)

NextLabelSeq ==
    \E t \in Threads :
        \/ Setup(t)
        \/ SeqAddLabel(t)
        \/ SeqHasLabel(t)
        \/ SeqNodesForLabel(t)
        \/ SeqResetLabels(t)
        \/ GraphDone(t)
        \/ SeqRcuStep(t)
        \/ ArrayStep(t)
        \/ SetStep(t)
        \/ mfind_cap(t)
        \/ mfind_vec(t)
        \/ mfind_key(t)
        \/ macq_vec(t)
        \/ macq_key(t)
        \/ macq_cas(t)
        \/ macq_drop(t)
        \/ madd_test(t)
        \/ madd_value(t)
        \/ madd_create(t)
        \/ madd_key(t)
        \/ madd_ret(t)
        \/ mget_vec(t)
        \/ mget_key(t)
        \/ g_user(t)
        \/ g_user_ret(t)
        \/ g_name_ret(t)
        \/ gae_vec(t)
        \/ gae_store(t)
        \/ gae_ret(t)
        \/ gl_load(t)
        \/ gal_set(t)
        \/ ghl_test(t)
        \/ gnf_iter(t)
        \/ iter_next(t)
        \/ grl_load(t)
        \/ grl_store(t)
        \/ grl_delete(t)
        \/ g_ret(t)

SpecLabelSeq == InitLabelSeq /\ [][NextLabelSeq]_vars

\* the values of a sequence
Range(q) == {q[x] : x \in DOMAIN q}

\* the containers of a Graph that hold no labels
NoLabelConts ==
    {LIST, NODES, BYUSER, BYFILE} \cup UNION {NodeSets(p) : p \in DOMAIN node}

(***************************************************************************)
(* SpecLabels: after add_external of "a", "b", "c" and "d" and             *)
(* graph_add_label of the first three nodes with "p", the threads call     *)
(* graph_add_label(3, "p"), for which the set of "p" grows,                *)
(* graph_has_label, graph_all_nodes_for_label and graph_reset_labels.      *)
(***************************************************************************)
\* calls of all threads together
MaxLabelOps == 2

LabelScript == <<Op("add_external", "a", 0, 0, FALSE),
                 Op("add_external", "b", 0, 0, FALSE),
                 Op("add_external", "c", 0, 0, FALSE),
                 Op("add_external", "d", 0, 0, FALSE),
                 Op("add_label", "p", 0, 0, FALSE),
                 Op("add_label", "p", 1, 0, FALSE),
                 Op("add_label", "p", 2, 0, FALSE)>>

AddLabel(t) ==
    /\ GraphOps < MaxLabelOps
    /\ FreeCall(t, Op("add_label", "p", 3, 0, FALSE))

HasLabel(t) ==
    /\ GraphOps < MaxLabelOps
    /\ FreeCall(t, Op("has_label", "p", 0, 0, FALSE))

NodesForLabel(t) ==
    /\ GraphOps < MaxLabelOps
    /\ FreeCall(t, Op("nodes_for_label", "p", 0, 0, FALSE))

ResetLabels(t) ==
    /\ GraphOps < MaxLabelOps
    /\ FreeCall(t, Op("reset_labels", "", 0, 0, FALSE))

InitLabels == InitGraph(LabelScript)

NextLabels ==
    \E t \in Threads :
        \/ Setup(t)
        \/ AddLabel(t)
        \/ HasLabel(t)
        \/ NodesForLabel(t)
        \/ ResetLabels(t)
        \/ GraphDone(t)
        \/ RcuStep(t)
        \/ ArrayStep(t)
        \/ SetStep(t)
        \/ mfind_cap(t)
        \/ mfind_vec(t)
        \/ mfind_key(t)
        \/ macq_vec(t)
        \/ macq_key(t)
        \/ macq_cas(t)
        \/ macq_drop(t)
        \/ madd_test(t)
        \/ madd_value(t)
        \/ madd_create(t)
        \/ madd_key(t)
        \/ madd_ret(t)
        \/ mget_vec(t)
        \/ mget_key(t)
        \/ g_user(t)
        \/ g_user_ret(t)
        \/ g_name_ret(t)
        \/ gae_vec(t)
        \/ gae_store(t)
        \/ gae_ret(t)
        \/ gl_load(t)
        \/ gal_set(t)
        \/ ghl_test(t)
        \/ gnf_iter(t)
        \/ iter_next(t)
        \/ grl_load(t)
        \/ grl_store(t)
        \/ grl_delete(t)
        \/ g_ret(t)

SpecLabels == InitLabels /\ [][NextLabels]_vars

\* thread t is in a function of a container: its next step loads or
\* stores a field of the container cfr[t].c or a cell of the backing
\* cfr[t].b
InCont(t) ==
    pc[t] \in {"reserve", "reserve_reload", "reserve_cap", "reserve_cas",
               "resize", "resize_check", "resize_copy", "resize_vec",
               "resize_cap", "resize_free",
               "mfind", "mfind_vec", "mfind_key", "macq_vec", "macq_key",
               "macq_cas", "macq_drop", "madd_test", "madd_create",
               "madd_key", "madd_ret", "mget_vec", "mget_key", "mget_val",
               "sfind", "sfind_vec", "sfind_cell", "sadd_vec", "sadd_cell",
               "sadd_drop", "sadd_vec2", "sadd_cas", "sinc_vec", "sinc_cell"}

(***************************************************************************)
(* SpecAbsent: after the calls of FileScript, which make the map nodes     *)
(* grow, one thread at a time calls graph_get_node,                        *)
(* graph_all_nodes_for_file, graph_all_nodes_for_label and                 *)
(* graph_has_label.                                                        *)
(***************************************************************************)
NextAbsent ==
    \E t \in Threads :
        \/ Setup(t)
        \/ SeqGetNode(t)
        \/ SeqNodesForFile(t)
        \/ SeqNodesForLabel(t)
        \/ SeqHasLabel(t)
        \/ GraphDone(t)
        \/ SeqRcuStep(t)
        \/ ArrayStep(t)
        \/ mfind_cap(t)
        \/ mfind_vec(t)
        \/ mfind_key(t)
        \/ macq_vec(t)
        \/ macq_key(t)
        \/ macq_cas(t)
        \/ macq_drop(t)
        \/ madd_test(t)
        \/ madd_value(t)
        \/ madd_create(t)
        \/ madd_key(t)
        \/ madd_ret(t)
        \/ mget_vec(t)
        \/ mget_key(t)
        \/ nbi_vec(t)
        \/ nbi_cell(t)
        \/ g_user(t)
        \/ g_user_ret(t)
        \/ g_name_ret(t)
        \/ gae_vec(t)
        \/ gae_store(t)
        \/ gae_ret(t)
        \/ g_node(t)
        \/ gsl_file(t)
        \/ gsl_store(t)
        \/ gsl_line(t)
        \/ gsl_list(t)
        \/ gsl_vec(t)
        \/ gsl_cell(t)
        \/ gnf_get(t)
        \/ gl_load(t)
        \/ ghl_test(t)
        \/ gnf_iter(t)
        \/ iter_next(t)

SpecAbsent == InitFiles /\ [][NextAbsent]_vars

----------------------------------------------------------------------------
(***************************************************************************)
(* SpecNest: threads that open and close reader regions, call              *)
(* synchronize_rcu() outside a region, and may call lock() on their handle *)
(* again while its region is open.                                         *)
(***************************************************************************)
\* calls of lock() and synchronize_rcu() of all threads together
MaxNestOps == 4

\* the operations the threads 1..n have started
RECURSIVE TotalOps(_)
TotalOps(n) == IF n = 0 THEN 0 ELSE ops[n] + TotalOps(n - 1)

\* rcu->lock() on a handle whose region is closed
NestBegin(t) ==
    /\ pc[t] = "idle"
    /\ TotalOps(NThreads) < MaxNestOps
    /\ ops' = [ops EXCEPT ![t] = @ + 1]
    /\ Call(t, "lock", "region")
    /\ UNCHANGED <<rcuVars, memVars, frameVars, hist, graphVars>>

\* rcu->lock() on a handle whose region is open
NestAgain(t) ==
    /\ pc[t] = "region"
    /\ TotalOps(NThreads) < MaxNestOps
    /\ ops' = [ops EXCEPT ![t] = @ + 1]
    /\ Call(t, "lock", "region")
    /\ UNCHANGED <<rcuVars, memVars, frameVars, hist, graphVars>>

\* synchronize_rcu() called by a thread that is in no region
NestSync(t) ==
    /\ TotalOps(NThreads) < MaxNestOps
    /\ ops' = [ops EXCEPT ![t] = @ + 1]
    /\ pc[t] = "idle"
    /\ rcu_gp < MaxGP
    /\ CallSynchronize(t, "idle")
    /\ UNCHANGED <<rcu_gp, depth, period, t_waiting, wake, threads_lock, l_gp,
                   gp, waiting, new_waiting, sidx, gp_left>>
    /\ UNCHANGED <<memVars, frameVars, hist, graphVars>>

NextNest ==
    \E t \in Threads :
        \/ NestBegin(t)
        \/ NestAgain(t)
        \/ RegionEnd(t)
        \/ NestSync(t)
        \/ lock_depth(t)
        \/ lock_load(t)
        \/ lock_store(t)
        \/ unlock_store(t)
        \/ unlock_test(t)
        \/ unlock_clear(t)
        \/ unlock_wake(t)
        \/ sync_lock(t)
        \/ sync_gp(t)
        \/ sync_drop(t)
        \/ sync_start(t)
        \/ sync_check(t)
        \/ sync_wait(t)

SpecNest == InitRcu /\ [][NextNest]_vars

----------------------------------------------------------------------------
(***************************************************************************)
(* SpecPub: the threads of a program that share the ConcurrentStringMap of *)
(* SpecMap; they add and look up the same keys, so that a lookup runs      *)
(* while another thread inserts its key or makes the map grow.             *)
(***************************************************************************)
\* operations of all threads together
MaxPubOps == 3

\* the keys the threads add and look up: neither is in the map at first
PubKeys == {"ghi", "jkl"}

\* i = ca.add(rcu, k, v), with a value v that no other call passes
PubAdd(t) ==
    /\ pc[t] = "region"
    /\ MapOps < MaxPubOps
    /\ \E k \in PubKeys :
           CallMapAdd(t, "ca", k, 10 * t + ops[t] + 1, <<"map_done">>)
    /\ ops' = [ops EXCEPT ![t] = @ + 1]
    /\ UNCHANGED <<rcuVars, memVars, ret, hist, graphVars>>

\* ca.get(rcu, k, 999)
PubGet(t) ==
    /\ pc[t] = "region"
    /\ MapOps < MaxPubOps
    /\ \E k \in PubKeys :
           /\ CallMapGet(t, "ca", k, MapAbsent, <<"map_done">>)
           /\ hist' = [hist EXCEPT !.seen[t] = hist.add[k].vals]
    /\ ops' = [ops EXCEPT ![t] = @ + 1]
    /\ UNCHANGED <<rcuVars, memVars, afr, ret, graphVars>>

NextPub ==
    \E t \in Threads :
        \/ RegionBegin(t)
        \/ RegionEnd(t)
        \/ PubAdd(t)
        \/ PubGet(t)
        \/ MapDone(t)
        \/ RcuStep(t)
        \/ ArrayStep(t)
        \/ mfind_cap(t)
        \/ mfind_vec(t)
        \/ mfind_key(t)
        \/ macq_vec(t)
        \/ macq_key(t)
        \/ macq_cas(t)
        \/ macq_drop(t)
        \/ madd_test(t)
        \/ madd_value(t)
        \/ madd_key(t)
        \/ madd_ret(t)
        \/ mget_vec(t)
        \/ mget_key(t)

SpecPub == InitMap /\ [][NextPub]_vars

----------------------------------------------------------------------------
(***************************************************************************)
(* SpecVis: the threads of a program that share one ConcurrentHashSet of   *)
(* capacity 4 into which add(5) and add(2) have put two keys; they add     *)
(* further keys, which makes the set grow, and look up the keys in reader  *)
(* regions.  hist.seen[t] holds the keys whose add had returned when t     *)
(* opened its region.                                                      *)
(***************************************************************************)
\* operations of all threads together
MaxVisOps == 3

\* the keys in the set at first, the keys the threads add and the keys
\* they look up: 5 is in cell 1 of a table of 4 cells and in cell 5 of a
\* table of 8
VisInitKeys == {2, 5}
VisAddKeys == {6, 7}
VisKeys == {5, 6}

\* what add(k) run alone makes of the cells
SeqSetAdd(cells, n, k) ==
    [cells EXCEPT ![ProbeEmpty(cells, n, Hash(k) - 1)] = k]

\* std::unique_lock{*rcu}: rcu->lock()
VisBegin(t) ==
    /\ pc[t] = "idle"
    /\ Call(t, "lock", "region")
    /\ hist' = [hist EXCEPT !.seen[t] = hist.add]
    /\ UNCHANGED <<rcuVars, memVars, frameVars, ops, graphVars>>

\* bool i = ca.add(rcu, k)
VisAdd(t) ==
    /\ pc[t] = "region"
    /\ MapOps < MaxVisOps
    /\ \E k \in VisAddKeys : CallSetAdd(t, "ca", k, <<"set_done">>)
    /\ ops' = [ops EXCEPT ![t] = @ + 1]
    /\ UNCHANGED <<rcuVars, memVars, ret, hist, graphVars>>

\* ca.includes(rcu, k)
VisIncludes(t) ==
    /\ pc[t] = "region"
    /\ MapOps < MaxVisOps
    /\ \E k \in VisKeys : CallSetIncludes(t, "ca", k, <<"set_done">>)
    /\ ops' = [ops EXCEPT ![t] = @ + 1]
    /\ UNCHANGED <<rcuVars, memVars, afr, ret, hist, graphVars>>

\* the call has returned: hist.add holds the keys whose add has returned,
\* hist.miss the keys for which includes has returned false in a region
\* opened after their add had returned
VisDone(t) ==
    /\ pc[t] = "set_done"
    /\ LET k == cfr[t].key
       IN  hist' = IF cfr[t].op = "add"
                   THEN [hist EXCEPT !.add = @ \cup {k}]
                   ELSE [hist EXCEPT !.miss =
                           IF k \in hist.seen[t] /\ ret[t] = FALSE
                           THEN @ \cup {k} ELSE @]
    /\ cfr' = [cfr EXCEPT ![t] = NoCfr]
    /\ afr' = [afr EXCEPT ![t] = NoAfr]
    /\ ret' = [ret EXCEPT ![t] = 0]
    /\ Goto(t, "region")
    /\ UNCHANGED <<rcuVars, memVars, ops, graphVars>>

InitVis ==
    /\ pc = [t \in Threads |-> "idle"]
    /\ stk = [t \in Threads |-> <<>>]
    /\ InitRcuVars
    /\ capacity = [c \in {"ca"} |-> SetCapacity]
    /\ count = [c \in {"ca"} |-> 2]
    /\ vec = [c \in {"ca"} |-> 1]
    /\ mutex = [c \in {"ca"} |-> 0]
    /\ heap = <<[AllocSet(SetCapacity) EXCEPT !.cells =
                   SeqSetAdd(SeqSetAdd(@, SetCapacity, 5), SetCapacity, 2)]>>
    /\ strs = <<>>
    /\ cfr = [t \in Threads |-> NoCfr]
    /\ afr = [t \in Threads |-> NoAfr]
    /\ ret = [t \in Threads |-> 0]
    /\ ops = [t \in Threads |-> 0]
    /\ hist = [add |-> VisInitKeys,
               seen |-> [t \in Threads |-> {}],
               miss |-> {}]
    /\ InitNoGraph

NextVis ==
    \E t \in Threads :
        \/ VisBegin(t)
        \/ RegionEnd(t)
        \/ VisAdd(t)
        \/ VisIncludes(t)
        \/ VisDone(t)
        \/ RcuStep(t)
        \/ ArrayStep(t)
        \/ SetStep(t)

SpecVis == InitVis /\ [][NextVis]_vars

----------------------------------------------------------------------------
(***************************************************************************)
(* SpecSym: after add_external of "a", "b" and "c" and the call edges      *)
(* 0 -> 0 and 1 -> 0, the threads call graph_add_edge with callee 0, whose *)
(* callers set grows at the reservation that follows the third.            *)
(***************************************************************************)
\* calls of all threads together
MaxSymOps == 2

SymScript == <<Op("add_external", "a", 0, 0, FALSE),
               Op("add_external", "b", 0, 0, FALSE),
               Op("add_external", "c", 0, 0, FALSE),
               Op("add_edge", "", 0, 0, TRUE),
               Op("add_edge", "", 1, 0, TRUE)>>

\* the callers the threads pass
SymArgs == {1, 2}

SymAddEdge(t) ==
    /\ GraphOps < MaxSymOps
    /\ \E i \in SymArgs : FreeCall(t, Op("add_edge", "", i, 0, TRUE))

InitSym == InitGraph(SymScript)

NextSym ==
    \E t \in Threads :
        \/ Setup(t)
        \/ SymAddEdge(t)
        \/ GraphDone(t)
        \/ lock_depth(t)
        \/ lock_load(t)
        \/ lock_store(t)
        \/ unlock_store(t)
        \/ unlock_test(t)
        \/ unlock_clear(t)
        \/ unlock_wake(t)
        \/ sync_lock(t)
        \/ sync_gp(t)
        \/ sync_drop(t)
        \/ sync_start(t)
        \/ sync_check(t)
        \/ ArrayStep(t)
        \/ sfind_cap(t)
        \/ sfind_vec(t)
        \/ sfind_cell(t)
        \/ sadd_vec(t)
        \/ sadd_cell(t)
        \/ sadd_drop(t)
        \/ sadd_vec2(t)
        \/ sadd_cas(t)
        \/ mfind_cap(t)
        \/ mfind_vec(t)
        \/ mfind_key(t)
        \/ macq_vec(t)
        \/ macq_key(t)
        \/ macq_cas(t)
        \/ madd_test(t)
        \/ madd_value(t)
        \/ madd_key(t)
        \/ madd_ret(t)
        \/ mget_vec(t)
        \/ mget_key(t)
        \/ nbi_vec(t)
        \/ nbi_cell(t)
        \/ g_user(t)
        \/ g_user_ret(t)
        \/ g_name_ret(t)
        \/ gae_vec(t)
        \/ gae_store(t)
        \/ gae_ret(t)
        \/ g_node(t)
        \/ gadd_callers(t)
        \/ gadd_caller(t)
        \/ gadd_calls(t)
        \/ g_ret(t)

SpecSym == InitSym /\ [][NextSym]_vars

\* the indices the cells of the set c hold
SetContents(c) ==
    {heap[vec[c]].cells[i] : i \in DOMAIN heap[vec[c]].cells} \ {EMPTY}

----------------------------------------------------------------------------
(***************************************************************************)
(* SpecSlot: the threads of a program that share the ConcurrentStringMap   *)
(* of SpecMap and add one and the same new key to it; the reservation of   *)
(* the second add makes the map grow.                                      *)
(***************************************************************************)
\* calls of add of all threads together
MaxSlotOps == 2

\* i = ca.add(rcu, "ghi", v), with a value v that no other call passes
SlotAdd(t) ==
    /\ pc[t] = "region"
    /\ TotalOps(NThreads) < MaxSlotOps
    /\ CallMapAdd(t, "ca", "ghi", 10 * t + ops[t] + 1, <<"map_done">>)
    /\ ops' = [ops EXCEPT ![t] = @ + 1]
    /\ UNCHANGED <<rcuVars, memVars, ret, hist, graphVars>>

NextSlot ==
    \E t \in Threads :
        \/ RegionBegin(t)
        \/ RegionEnd(t)
        \/ SlotAdd(t)
        \/ MapDone(t)
        \/ RcuStep(t)
        \/ ArrayStep(t)
        \/ mfind_cap(t)
        \/ mfind_vec(t)
        \/ mfind_key(t)
        \/ macq_vec(t)
        \/ macq_key(t)
        \/ macq_cas(t)
        \/ macq_drop(t)
        \/ madd_test(t)
        \/ madd_value(t)
        \/ madd_key(t)
        \/ madd_ret(t)

SpecSlot == InitMap /\ [][NextSlot]_vars

----------------------------------------------------------------------------
(***************************************************************************)
(* SpecList: the threads of a program that share one ConcurrentList        *)
(* constructed with capacity 4 (as tests/conc_array_test does), to which   *)
(* the main thread has added three elements, and call add on it inside     *)
(* reader regions; the reservation that follows the fourth makes the list  *)
(* grow.  hist.added holds the pairs of the index an add has returned and  *)
(* the element it was called with, hist.wrong the reads of an index of     *)
(* hist.added that have yielded another element.                           *)
(***************************************************************************)
\* ConcurrentList<...> ca(4)
ListCapacity == 4

\* calls of add of all threads together
MaxListOps == 2

\* size_t i = ca.add(rcu, v), with a v that no other call passes:
\* contents.reserve(rcu, *this)
ListAdd(t) ==
    /\ pc[t] = "region"
    /\ TotalOps(NThreads) < MaxListOps
    /\ cfr' = [cfr EXCEPT ![t] = [NoCfr EXCEPT !.c = "ca", !.op = "add",
                                               !.val = 10 * t + ops[t] + 1]]
    /\ afr' = [afr EXCEPT ![t] = [NoAfr EXCEPT !.lf = 4]]
    /\ pc' = [pc EXCEPT ![t] = "reserve"]
    /\ stk' = [stk EXCEPT ![t] = <<"ladd_vec", "list_done">> \o @]
    /\ ops' = [ops EXCEPT ![t] = @ + 1]
    /\ UNCHANGED <<rcuVars, memVars, ret, hist, graphVars>>

\* contents[i] with the i reserve has returned: vec.load()
ladd_vec(t) ==
    /\ pc[t] = "ladd_vec"
    /\ cfr' = [cfr EXCEPT ![t].i = ret[t], ![t].b = vec[Cont(t)]]
    /\ Goto(t, "ladd_store")
    /\ UNCHANGED <<rcuVars, memVars, afr, ret, apiVars>>

\* contents[i].value = release_value(std::move(t)); return i;
\* A store into a backing that has been freed reaches no backing.
ladd_store(t) ==
    /\ pc[t] = "ladd_store"
    /\ heap' = IF heap[cfr[t].b].freed THEN heap
               ELSE [heap EXCEPT ![cfr[t].b].cells[cfr[t].i] = cfr[t].val]
    /\ ret' = [ret EXCEPT ![t] = cfr[t].i]
    /\ Return(t)
    /\ UNCHANGED <<rcuVars, capacity, count, vec, mutex, strs, cfr, afr,
                   apiVars>>

\* the call has returned
ListDone(t) ==
    /\ pc[t] = "list_done"
    /\ hist' = [hist EXCEPT !.added = @ \cup {<<ret[t], cfr[t].val>>}]
    /\ cfr' = [cfr EXCEPT ![t] = NoCfr]
    /\ afr' = [afr EXCEPT ![t] = NoAfr]
    /\ ret' = [ret EXCEPT ![t] = 0]
    /\ Goto(t, "region")
    /\ UNCHANGED <<rcuVars, memVars, ops, graphVars>>

\* ca[i] for an index i an add has returned: vec.load()[i].value
ListRead(t) ==
    /\ pc[t] = "region"
    /\ \E p \in hist.added :
          LET got == heap[vec["ca"]].cells[p[1]]
          IN  hist' = [hist EXCEPT !.wrong =
                          IF got = p[2] THEN @
                          ELSE @ \cup {<<p[1], p[2], got>>}]
    /\ UNCHANGED <<pc, stk, rcuVars, memVars, frameVars, ops, graphVars>>

InitList ==
    /\ pc = [t \in Threads |-> "idle"]
    /\ stk = [t \in Threads |-> <<>>]
    /\ InitRcuVars
    /\ capacity = [c \in {"ca"} |-> ListCapacity]
    /\ count = [c \in {"ca"} |-> 3]
    /\ vec = [c \in {"ca"} |-> 1]
    /\ mutex = [c \in {"ca"} |-> 0]
    /\ heap = <<[AllocIndexList(ListCapacity) EXCEPT
                   !.cells[0] = 101, !.cells[1] = 102, !.cells[2] = 103]>>
    /\ strs = <<>>
    /\ cfr = [t \in Threads |-> NoCfr]
    /\ afr = [t \in Threads |-> NoAfr]
    /\ ret = [t \in Threads |-> 0]
    /\ ops = [t \in Threads |-> 0]
    /\ hist = [added |-> {<<0, 101>>, <<1, 102>>, <<2, 103>>}, wrong |-> {}]
    /\ InitNoGraph

NextList ==
    \E t \in Threads :
        \/ RegionBegin(t)
        \/ RegionEnd(t)
        \/ ListAdd(t)
        \/ ladd_vec(t)
        \/ ladd_store(t)
        \/ ListDone(t)
        \/ ListRead(t)
        \/ RcuStep(t)
        \/ ArrayStep(t)

SpecList == InitList /\ [][NextList]_vars

\* the threads to which reserve has returned an index they have not yet
\* returned from add, and that index
Reserving == {t \in Threads : pc[t] \in {"ladd_vec", "ladd_store",
                                         "list_done"}}

ReservedBy(t) == IF pc[t] = "ladd_store" THEN cfr[t].i ELSE ret[t]

----------------------------------------------------------------------------
(***************************************************************************)
(* SpecLoad: the threads of a program that share a ConcurrentHashSet "cs"  *)
(* and a ConcurrentStringMap "cm", both of capacity 4 and holding two      *)
(* keys, and add to them inside reader regions one more key, which is new  *)
(* to the first add and a duplicate to the adds that follow it; the second *)
(* reservation in a row makes the container grow.                          *)
(***************************************************************************)
\* calls of add of all threads together
MaxLoadOps == 2

\* the key the threads add to the set: the first add finds it absent
LoadSetKeys == {6}

\* the key the threads add to the map: the first add finds it absent
LoadMapKeys == {"ghi"}

\* cs.add(rcu, k)
LoadSetAdd(t) ==
    /\ pc[t] = "region"
    /\ TotalOps(NThreads) < MaxLoadOps
    /\ \E k \in LoadSetKeys : CallSetAdd(t, "cs", k, <<"load_done">>)
    /\ ops' = [ops EXCEPT ![t] = @ + 1]
    /\ UNCHANGED <<rcuVars, memVars, ret, hist, graphVars>>

\* cm.add(rcu, k, v), with a value v that no other call passes
LoadMapAdd(t) ==
    /\ pc[t] = "region"
    /\ TotalOps(NThreads) < MaxLoadOps
    /\ \E k \in LoadMapKeys :
           CallMapAdd(t, "cm", k, 10 * t + ops[t] + 1, <<"load_done">>)
    /\ ops' = [ops EXCEPT ![t] = @ + 1]
    /\ UNCHANGED <<rcuVars, memVars, ret, hist, graphVars>>

\* the call has returned
LoadDone(t) ==
    /\ pc[t] = "load_done"
    /\ cfr' = [cfr EXCEPT ![t] = NoCfr]
    /\ afr' = [afr EXCEPT ![t] = NoAfr]
    /\ ret' = [ret EXCEPT ![t] = 0]
    /\ Goto(t, "region")
    /\ UNCHANGED <<rcuVars, memVars, apiVars>>

InitLoad ==
    /\ pc = [t \in Threads |-> "idle"]
    /\ stk = [t \in Threads |-> <<>>]
    /\ InitRcuVars
    /\ capacity = [c \in {"cs", "cm"} |->
                      IF c = "cs" THEN SetCapacity ELSE MapCapacity]
    /\ count = [c \in {"cs", "cm"} |-> 2]
    /\ vec = [c \in {"cs", "cm"} |-> IF c = "cs" THEN 1 ELSE 2]
    /\ mutex = [c \in {"cs", "cm"} |-> 0]
    /\ heap = <<[AllocSet(SetCapacity) EXCEPT !.cells =
                   SeqSetAdd(SeqSetAdd(@, SetCapacity, 5), SetCapacity, 2)],
                [AllocMap(MapCapacity) EXCEPT !.cells =
                   SeqAdd(SeqAdd(@, MapCapacity, "abc", 1, 111),
                          MapCapacity, "def", 2, 333)]>>
    /\ strs = <<[s |-> "abc", freed |-> FALSE], [s |-> "def", freed |-> FALSE]>>
    /\ cfr = [t \in Threads |-> NoCfr]
    /\ afr = [t \in Threads |-> NoAfr]
    /\ ret = [t \in Threads |-> 0]
    /\ ops = [t \in Threads |-> 0]
    /\ hist = <<>>
    /\ InitNoGraph

NextLoad ==
    \E t \in Threads :
        \/ RegionBegin(t)
        \/ RegionEnd(t)
        \/ LoadSetAdd(t)
        \/ LoadMapAdd(t)
        \/ LoadDone(t)
        \/ RcuStep(t)
        \/ ArrayStep(t)
        \/ sfind_cap(t)
        \/ sfind_vec(t)
        \/ sfind_cell(t)
        \/ sadd_vec(t)
        \/ sadd_cell(t)
        \/ sadd_drop(t)
        \/ sadd_vec2(t)
        \/ sadd_cas(t)
        \/ mfind_cap(t)
        \/ mfind_vec(t)
        \/ mfind_key(t)
        \/ macq_vec(t)
        \/ macq_key(t)
        \/ macq_cas(t)
        \/ macq_drop(t)
        \/ madd_test(t)
        \/ madd_value(t)
        \/ madd_key(t)
        \/ madd_ret(t)

SpecLoad == InitLoad /\ [][NextLoad]_vars

----------------------------------------------------------------------------
(***************************************************************************)
(* SpecGrow: the program of SpecList after the main thread has added a     *)
(* fourth element: the list is full, and every add of a thread starts      *)
(* with resize(owner, 4, 8).                                               *)
(***************************************************************************)
InitGrow ==
    /\ pc = [t \in Threads |-> "idle"]
    /\ stk = [t \in Threads |-> <<>>]
    /\ InitRcuVars
    /\ capacity = [c \in {"ca"} |-> ListCapacity]
    /\ count = [c \in {"ca"} |-> ListCapacity]
    /\ vec = [c \in {"ca"} |-> 1]
    /\ mutex = [c \in {"ca"} |-> 0]
    /\ heap = <<[AllocIndexList(ListCapacity) EXCEPT
                   !.cells[0] = 101, !.cells[1] = 102, !.cells[2] = 103,
                   !.cells[3] = 104]>>
    /\ strs = <<>>
    /\ cfr = [t \in Threads |-> NoCfr]
    /\ afr = [t \in Threads |-> NoAfr]
    /\ ret = [t \in Threads |-> 0]
    /\ ops = [t \in Threads |-> 0]
    /\ hist = [added |-> {<<0, 101>>, <<1, 102>>, <<2, 103>>, <<3, 104>>},
               wrong |-> {}]
    /\ InitNoGraph

NextGrow ==
    \E t \in Threads :
        \/ RegionBegin(t)
        \/ RegionEnd(t)
        \/ ListAdd(t)
        \/ ladd_vec(t)
        \/ ladd_store(t)
        \/ ListDone(t)
        \/ RcuStep(t)
        \/ ArrayStep(t)

SpecGrow == InitGrow /\ [][NextGrow]_vars

\* thread t is in resize, past the test of the capacity
Growing(t) ==
    \/ pc[t] \in {"resize_copy", "resize_vec", "resize_cap", "resize_free"}
    \/ stk[t] # <<>> /\ Head(stk[t]) = "resize_free"

-----------------------------------------------------------------------------
(***************************************************************************)
(* graph_all_files and graph_all_labels: the iteration over the keys of a  *)
(* ConcurrentStringMap, while other threads add keys.  The frame gfr[t]    *)
(* holds count in k, the iterator begin in b (the backing base points      *)
(* into), i (the index of the entry base points to) and j (n), and the     *)
(* iterator end in p and res.                                              *)
(***************************************************************************)
\* the calls of the threads, all together
MaxKeysOps == 3

\* the key the threads add: the first add finds it absent
IterAddKeys == {"ghi"}

\* n of an iterator after --n at n = 0, when assert(n) is compiled out
WRAPPED == -2

\* n of begin before contents.max_size() has been loaded
UNSET == -1

\* what base->key.load(relaxed) can give: the key of the entry, or any
\* pointer when base points into a backing that has been freed or behind
\* the entries of its backing
IterLoad(b, i) ==
    IF heap[b].freed \/ i \notin DOMAIN heap[b].cells
    THEN {NULL, PENDING, JUNK}
    ELSE {heap[b].cells[i].key}

\* nodes_by_file.add(guard, file) of another caller
IterAdd(t) ==
    /\ pc[t] = "region"
    /\ TotalOps(NThreads) < MaxKeysOps
    /\ \E k \in IterAddKeys :
           CallMapAdd(t, "cm", k, 10 * t + ops[t] + 1, <<"load_done">>)
    /\ ops' = [ops EXCEPT ![t] = @ + 1]
    /\ UNCHANGED <<rcuVars, memVars, ret, hist, graphVars>>

\* graph_all_files: size_t count = g->nodes_by_file.size(); *n = 0
AllFiles(t) ==
    /\ pc[t] = "region"
    /\ TotalOps(NThreads) < MaxKeysOps
    /\ ops' = [ops EXCEPT ![t] = @ + 1]
    /\ gfr' = [gfr EXCEPT ![t] = [NoGfr EXCEPT !.op = "all_files",
                                               !.k = count["cm"],
                                               !.j = UNSET]]
    /\ hist' = [hist EXCEPT !.out[t] = <<>>, !.size[t] = count["cm"]]
    /\ Goto(t, "gaf_begin")
    /\ UNCHANGED <<rcuVars, memVars, frameVars, node, todo, node_labels>>

\* begin(): iter(&contents[0], contents.max_size()), the argument
\* &contents[0], which is vec.load(); the arguments are evaluated in
\* either order, and the constructor calls incr(0) when it has both
gaf_begin_vec(t) ==
    /\ pc[t] = "gaf_begin"
    /\ gfr[t].b = 0
    /\ gfr' = [gfr EXCEPT ![t].b = vec["cm"], ![t].i = 0]
    /\ IF gfr[t].j = UNSET THEN Goto(t, "gaf_begin")
       ELSE Call(t, "gaf_incr", "gaf_end")
    /\ UNCHANGED <<rcuVars, memVars, frameVars, ops, hist, node, todo,
                   node_labels>>

\* begin(): the argument contents.max_size(), which loads capacity
gaf_begin_cap(t) ==
    /\ pc[t] = "gaf_begin"
    /\ gfr[t].j = UNSET
    /\ gfr' = [gfr EXCEPT ![t].j = capacity["cm"]]
    /\ IF gfr[t].b = 0 THEN Goto(t, "gaf_begin")
       ELSE Call(t, "gaf_incr", "gaf_end")
    /\ UNCHANGED <<rcuVars, memVars, frameVars, ops, hist, node, todo,
                   node_labels>>

\* one round of the loop of iter::incr:
\* while (n) { s = base->key.load(relaxed); if (s) break; --n, ++base; }
gaf_incr(t) ==
    /\ pc[t] = "gaf_incr"
    /\ IF gfr[t].j = 0
       THEN Return(t) /\ UNCHANGED gfr
       ELSE \E s \in IterLoad(gfr[t].b, gfr[t].i) :
               IF s # NULL
               THEN Return(t) /\ UNCHANGED gfr
               ELSE /\ gfr' = [gfr EXCEPT
                                 ![t].j = IF @ = WRAPPED THEN @ ELSE @ - 1,
                                 ![t].i = @ + 1]
                    /\ Goto(t, "gaf_incr")
    /\ UNCHANGED <<rcuVars, memVars, frameVars, ops, hist, node, todo,
                   node_labels>>

\* end(): iter(&contents[contents.max_size()], 0): the index is loaded
\* from capacity
gaf_end_cap(t) ==
    /\ pc[t] = "gaf_end"
    /\ gfr' = [gfr EXCEPT ![t].res = capacity["cm"]]
    /\ Goto(t, "gaf_end_vec")
    /\ UNCHANGED <<rcuVars, memVars, frameVars, ops, hist, node, todo,
                   node_labels>>

\* end(): operator[] then loads vec; incr(0) finds n = 0
gaf_end_vec(t) ==
    /\ pc[t] = "gaf_end_vec"
    /\ gfr' = [gfr EXCEPT ![t].p = vec["cm"]]
    /\ Goto(t, "gaf_test")
    /\ UNCHANGED <<rcuVars, memVars, frameVars, ops, hist, node, todo,
                   node_labels>>

\* the test of the for loop: count-- && begin != end, which compares the
\* two base pointers; return array when it fails
gaf_test(t) ==
    /\ pc[t] = "gaf_test"
    /\ IF gfr[t].k = 0
       THEN Goto(t, "gaf_ret") /\ UNCHANGED gfr
       ELSE /\ gfr' = [gfr EXCEPT ![t].k = @ - 1]
            /\ IF gfr[t].b = gfr[t].p /\ gfr[t].i = gfr[t].res
               THEN Goto(t, "gaf_ret")
               ELSE Goto(t, "gaf_deref")
    /\ UNCHANGED <<rcuVars, memVars, frameVars, ops, hist, node, todo,
                   node_labels>>

\* *p = strdup((*begin).c_str()): operator* builds
\* std::string(*base->key.load(relaxed)); the copy of a string behind the
\* pointer NULL or PENDING kills the process, that of a deleted string
\* gives any characters.  Then ++(*n), ++begin, which is assert(n) and
\* incr(1): --n, ++base and the loop of incr
gaf_deref(t) ==
    /\ pc[t] = "gaf_deref"
    /\ \E s \in IterLoad(gfr[t].b, gfr[t].i) :
          LET what == CASE s = NULL -> "null"
                        [] s = PENDING -> "pending"
                        [] s = JUNK -> "junk"
                        [] strs[s].freed -> "deleted"
                        [] OTHER -> strs[s].s
          IN  /\ hist' = [hist EXCEPT
                            !.out[t] = Append(@, <<gfr[t].b, gfr[t].i, what>>)]
              /\ IF s \in {NULL, PENDING, JUNK}
                 THEN Abort /\ UNCHANGED gfr
                 ELSE \/ /\ gfr[t].j = 0
                         /\ Abort
                         /\ UNCHANGED gfr
                      \/ /\ gfr' = [gfr EXCEPT
                                      ![t].j = IF @ \in {0, WRAPPED}
                                               THEN WRAPPED ELSE @ - 1,
                                      ![t].i = @ + 1]
                         /\ Call(t, "gaf_incr", "gaf_test")
    /\ UNCHANGED <<rcuVars, memVars, frameVars, ops, node, todo, node_labels>>

\* return array
gaf_ret(t) ==
    /\ pc[t] = "gaf_ret"
    /\ gfr' = [gfr EXCEPT ![t] = NoGfr]
    /\ Goto(t, "region")
    /\ UNCHANGED <<rcuVars, memVars, frameVars, ops, hist, node, todo,
                   node_labels>>

\* a map of capacity 4 that holds two keys
InitKeys ==
    /\ pc = [t \in Threads |-> "idle"]
    /\ stk = [t \in Threads |-> <<>>]
    /\ InitRcuVars
    /\ capacity = [c \in {"cm"} |-> MapCapacity]
    /\ count = [c \in {"cm"} |-> 2]
    /\ vec = [c \in {"cm"} |-> 1]
    /\ mutex = [c \in {"cm"} |-> 0]
    /\ heap = <<[AllocMap(MapCapacity) EXCEPT !.cells =
                   SeqAdd(SeqAdd(@, MapCapacity, "abc", 1, 111),
                          MapCapacity, "def", 2, 333)]>>
    /\ strs = <<[s |-> "abc", freed |-> FALSE], [s |-> "def", freed |-> FALSE]>>
    /\ cfr = [t \in Threads |-> NoCfr]
    /\ afr = [t \in Threads |-> NoAfr]
    /\ ret = [t \in Threads |-> 0]
    /\ ops = [t \in Threads |-> 0]
    /\ hist = [out |-> [t \in Threads |-> <<>>],
               size |-> [t \in Threads |-> 0]]
    /\ InitNoGraph

NextKeys ==
    \E t \in Threads :
        \/ RegionBegin(t)
        \/ RegionEnd(t)
        \/ IterAdd(t)
        \/ LoadDone(t)
        \/ AllFiles(t)
        \/ gaf_begin_vec(t)
        \/ gaf_begin_cap(t)
        \/ gaf_incr(t)
        \/ gaf_end_cap(t)
        \/ gaf_end_vec(t)
        \/ gaf_test(t)
        \/ gaf_deref(t)
        \/ gaf_ret(t)
        \/ RcuStep(t)
        \/ ArrayStep(t)
        \/ mfind_cap(t)
        \/ mfind_vec(t)
        \/ mfind_key(t)
        \/ macq_vec(t)
        \/ macq_key(t)
        \/ macq_cas(t)
        \/ macq_drop(t)
        \/ madd_test(t)
        \/ madd_value(t)
        \/ madd_key(t)
        \/ madd_ret(t)

SpecKeys == InitKeys /\ [][NextKeys]_vars

-----------------------------------------------------------------------------
(***************************************************************************)
(* graph_get_callers, graph_get_callees, graph_get_refs and iter_next: an  *)
(* Iter over the cells of a ConcurrentHashSet, which threads have filled   *)
(* with concurrent calls of add before.  While an Iter exists no thread    *)
(* adds to the set.  The frame gfr[t] holds the Iter of thread t: begin    *)
(* in b and i, end in p and res.                                           *)
(***************************************************************************)
\* the calls of add of the threads, all together
MaxIdxOps == 2

\* the calls of iter_next that a thread makes after the first -1
MaxAfterEnd == 2

\* the indices the threads add: 1 and 5 collide in a table of 4 cells
IdxKeys == {1, 5}

\* some thread holds an Iter or is constructing one
IterLive == \E t \in Threads : gfr[t].op # ""

\* nodes->callers.add(guard, i), as graph_add_edge calls it
IdxAdd(t) ==
    /\ pc[t] = "region"
    /\ ~IterLive
    /\ TotalOps(NThreads) < MaxIdxOps
    /\ \E k \in IdxKeys : CallSetAdd(t, "cs", k, <<"load_done">>)
    /\ ops' = [ops EXCEPT ![t] = @ + 1]
    /\ UNCHANGED <<rcuVars, memVars, ret, hist, graphVars>>

\* graph_get_callers: new Iter(nodes.begin(), nodes.end()), begin() being
\* &contents[0], which loads vec
GetCallers(t) ==
    /\ pc[t] = "region"
    /\ gfr[t].op = ""
    /\ \A u \in Threads : cfr[u].c = ""
    /\ gfr' = [gfr EXCEPT ![t] = [NoGfr EXCEPT !.op = "iter",
                                               !.b = vec["cs"], !.i = 0]]
    /\ Goto(t, "ggc_end")
    /\ UNCHANGED <<rcuVars, memVars, frameVars, ops, hist, node, todo,
                   node_labels>>

\* end(): &contents[max_size()]: the index is loaded from capacity
ggc_end_cap(t) ==
    /\ pc[t] = "ggc_end"
    /\ gfr' = [gfr EXCEPT ![t].res = capacity["cs"]]
    /\ Goto(t, "ggc_end_vec")
    /\ UNCHANGED <<rcuVars, memVars, frameVars, ops, hist, node, todo,
                   node_labels>>

\* end(): operator[] loads vec; return of the Iter
ggc_end_vec(t) ==
    /\ pc[t] = "ggc_end_vec"
    /\ gfr' = [gfr EXCEPT ![t].p = vec["cs"]]
    /\ hist' = [hist EXCEPT !.cap[t] = capacity["cs"]]
    /\ Goto(t, "region")
    /\ UNCHANGED <<rcuVars, memVars, frameVars, ops, node, todo, node_labels>>

\* the calls of iter_next that have returned -1
AfterEnd(t) == Cardinality({n \in DOMAIN hist.ret[t] : hist.ret[t][n] = -1})

\* a call of iter_next(i), inside or outside a reader region
IterNext(t) ==
    /\ pc[t] \in {"idle", "region"}
    /\ gfr[t].op = "iter"
    /\ AfterEnd(t) <= MaxAfterEnd
    /\ Call(t, "in_loop", pc[t])
    /\ UNCHANGED <<rcuVars, otherVars>>

\* one round of the loop of iter_next:
\* while (i->begin < i->end) { value = i->begin->load(relaxed); i->begin++;
\* if (value != (size_t)-1) return value; } return -1;
\* begin and end point into one backing when no thread has added meanwhile
in_loop(t) ==
    /\ pc[t] = "in_loop"
    /\ gfr[t].b = gfr[t].p
    /\ IF gfr[t].i < gfr[t].res
       THEN \E value \in SetLoad(gfr[t].b, gfr[t].i, JUNK) :
               /\ gfr' = [gfr EXCEPT ![t].i = @ + 1]
               /\ IF value # EMPTY
                  THEN /\ hist' = [hist EXCEPT !.ret[t] = Append(@, value)]
                       /\ Return(t)
                  ELSE /\ Goto(t, "in_loop")
                       /\ UNCHANGED hist
       ELSE /\ hist' = [hist EXCEPT !.ret[t] = Append(@, -1)]
            /\ Return(t)
            /\ UNCHANGED gfr
    /\ UNCHANGED <<rcuVars, memVars, frameVars, ops, node, todo, node_labels>>

\* the callers set of a node, of capacity 4, with the members 2 and 3
InitIdx ==
    /\ pc = [t \in Threads |-> "idle"]
    /\ stk = [t \in Threads |-> <<>>]
    /\ InitRcuVars
    /\ capacity = [c \in {"cs"} |-> SetCapacity]
    /\ count = [c \in {"cs"} |-> 2]
    /\ vec = [c \in {"cs"} |-> 1]
    /\ mutex = [c \in {"cs"} |-> 0]
    /\ heap = <<[AllocSet(SetCapacity) EXCEPT !.cells =
                   SeqSetAdd(SeqSetAdd(@, SetCapacity, 2), SetCapacity, 3)]>>
    /\ strs = <<>>
    /\ cfr = [t \in Threads |-> NoCfr]
    /\ afr = [t \in Threads |-> NoAfr]
    /\ ret = [t \in Threads |-> 0]
    /\ ops = [t \in Threads |-> 0]
    /\ hist = [ret |-> [t \in Threads |-> <<>>],
               cap |-> [t \in Threads |-> 0]]
    /\ InitNoGraph

NextIdx ==
    \E t \in Threads :
        \/ RegionBegin(t)
        \/ RegionEnd(t)
        \/ IdxAdd(t)
        \/ LoadDone(t)
        \/ GetCallers(t)
        \/ ggc_end_cap(t)
        \/ ggc_end_vec(t)
        \/ IterNext(t)
        \/ in_loop(t)
        \/ RcuStep(t)
        \/ ArrayStep(t)
        \/ sfind_cap(t)
        \/ sfind_vec(t)
        \/ sfind_cell(t)
        \/ sadd_vec(t)
        \/ sadd_cell(t)
        \/ sadd_drop(t)
        \/ sadd_vec2(t)
        \/ sadd_cas(t)

SpecIdx == InitIdx /\ [][NextIdx]_vars

----------------------------------------------------------------------------
\* C1: synchronize_rcu() returns only after every reader region that was
\* open when it was called has ended: at each return, no handle is left
\* whose region was open at the call and is still open.
C1_GracePeriod == \A s \in Threads : gp_left[s] = {}

\* C2: no thread inside a reader region uses a backing array that resize()
\* has already freed.
C2_NoUseAfterFree ==
    \A t \in Threads :
        (UsesBacking(t) /\ period[t] # 0) => ~heap[cfr[t].b].freed

\* C3: every call of synchronize_rcu() eventually returns (under fair
\* scheduling of threads whose regions all end).
C3_SyncReturns == \A s \in Threads : InSync(s) ~> ~InSync(s)

\* C4: once all calls have returned, every key k that add(k) was called
\* with is included, exactly one of the add(k) calls returned true, and
\* size() is the number of such keys (one more per key than before).
C4_SetUnique ==
    Quiet =>
        /\ \A k \in SetKeys :
              hist[k].n > 0 => (Includes("ca", k) /\ hist[k].true = 1)
        /\ count["ca"] = Cardinality({k \in SetKeys : hist[k].n > 0})


\* C5: first writer wins in ConcurrentStringMap: all calls of add with one
\* key return one and the same value, a get of that key that starts after
\* an add has returned returns that value as well, and when no call is in
\* progress size() is the number of keys that have been added.
C5_FirstWriterWins ==
    /\ \A k \in MapKeys : Cardinality(hist.add[k].vals) <= 1
    /\ hist.miss = {}
    /\ Quiet => count["ca"] = Cardinality(Added)

\* C6: no insert is lost under growth: when the capacity has grown, every
\* key has been added by one call only and no call is in progress, size()
\* is the number of keys added and get(k) can only return the value that
\* add(k) has inserted.
C6_NoInsertLost ==
    ( /\ Quiet
      /\ capacity["ca"] > MapCapacity
      /\ \A k \in MapKeys : hist.add[k].n <= 1 )
    => /\ count["ca"] = Cardinality(Added)
       /\ \A k \in Added :
             MapGetResults("ca", k, MapAbsent) = hist.add[k].vals
\* C7: index stability: a call of graph_get_node(name) that starts after a
\* call of graph_get_node(name) has returned an index other than -1
\* returns that index.
C7_IndexStable == hist.unstable = {}

\* C8: insertion idempotence: all calls of graph_add_external_node with one
\* name return one and the same index.
C8_AddIdempotent ==
    \A n \in GraphNames : Cardinality(hist.extern[n]) <= 1

\* C9: edge symmetry: after graph_add_edge(a, b, is_call) has returned, a
\* graph_has_call_edge(a, b) that starts afterwards returns true for a call
\* edge, and when no call is in progress a reader finds b in the calls
\* (refs) set of a and a in the callers set of b.
C9_EdgeSymmetry ==
    /\ hist.lost = {}
    /\ Quiet => EdgesLost = {}

\* C10: monotonic external: no graph_is_node_external(i) returns true when
\* it has started after a graph_is_node_external(i) has returned false.
C10_MonotonicExternal == hist.backtrue = {}

\* C11: when graph_has_edge(a, b, ref_ok) returns, its result is true
\* exactly when b is in nodes[a].calls, or ref_ok is true, nodes[b].external
\* is false and b is in nodes[a].refs; when graph_has_call_edge(a, b)
\* returns, its result is true exactly when b is in nodes[a].calls.
C11_HasEdge ==
    \A t \in Threads :
        pc[t] = "graph_done" =>
            LET o == gfr[t]
            IN  /\ o.op = "has_edge" =>
                     o.res = (\/ Edge(o.i, o.j, TRUE)
                              \/ /\ o.call
                                 /\ ~node[NodeAt(o.j)].external
                                 /\ Edge(o.i, o.j, FALSE))
                /\ o.op = "has_call_edge" => o.res = Edge(o.i, o.j, TRUE)

\* a ref-only edge to a node that is still external: graph_has_edge with
\* ref_ok has returned false
C11_Witness ==
    \E t \in Threads :
        /\ pc[t] = "graph_done"
        /\ gfr[t].op = "has_edge"
        /\ gfr[t].call
        /\ Edge(gfr[t].i, gfr[t].j, FALSE)
        /\ ~Edge(gfr[t].i, gfr[t].j, TRUE)
        /\ node[NodeAt(gfr[t].j)].external
        /\ gfr[t].res = FALSE

\* C12: while a thread is in graph_add_edge(a, b, is_call), no step changes
\* a Node's name, username, file, line or external, the label map, or a
\* container other than nodes[b].callers and nodes[a].calls (nodes[a].refs
\* when is_call is false); and graph_has_edge(a, b, .) and
\* graph_has_call_edge(a, b) return true only when graph_add_edge(a, b, .)
\* has been called, whatever edges lead from b to a.
C12_AddEdgeFrame ==
    /\ [][\A t \in Threads :
            (gfr[t].op = "add_edge" /\ pc[t] # "idle") =>
                /\ node' = node
                /\ node_labels' = node_labels
                /\ strs' = strs
                /\ \A c \in DOMAIN vec \ EdgeSets(gfr[t].i, gfr[t].j,
                                                  gfr[t].call) :
                      /\ vec'[c] = vec[c]
                      /\ count'[c] = count[c]
                      /\ capacity'[c] = capacity[c]
                      /\ heap'[vec[c]] = heap[vec[c]]]_vars
    /\ [](\A t \in Threads :
            (/\ pc[t] = "graph_done"
             /\ gfr[t].op \in {"has_edge", "has_call_edge"}
             /\ gfr[t].res = TRUE)
                => \E call \in BOOLEAN : Edge(gfr[t].i, gfr[t].j, call))

\* graph_add_edge(a, b, .) with a # b has returned, the edge from b to a
\* has not been added, and graph_has_edge(b, a, true) has returned false
C12_Witness ==
    \E t \in Threads :
        /\ pc[t] = "graph_done"
        /\ gfr[t].op = "has_edge"
        /\ gfr[t].i # gfr[t].j
        /\ gfr[t].call
        /\ \E call \in BOOLEAN : Edge(gfr[t].j, gfr[t].i, call)
        /\ \A call \in BOOLEAN : ~Edge(gfr[t].i, gfr[t].j, call)
        /\ gfr[t].res = FALSE

\* C13: graph_set_location(i, file, line) on a node whose file is not
\* empty changes neither file nor line, and on a node whose file is empty
\* it sets both; graph_all_nodes_for_file(f) gives the nodes whose file
\* the calls have set to f, in the order of the calls, so that a call that
\* sets nothing leaves by_file as it is and one that sets the file appends
\* the node
C13_SetLocation ==
    \A t \in Threads : pc[t] = "graph_done" =>
        LET o == gfr[t]
        IN  /\ o.op = "set_location" =>
                 <<node[NodeAt(o.i)].file, node[NodeAt(o.i)].line>> =
                    IF hist.loc[o.i][1] = "" THEN <<o.name, o.j>>
                    ELSE hist.loc[o.i]
            /\ (o.op = "nodes_for_file" /\ o.name \in FileNames) =>
                 o.res = hist.byfile[o.name]

\* C14: while graph_set_username(i, u) runs on a node whose file is not
\* empty, the usernames of the nodes and nodes_by_username stay as they
\* are and the process does not abort, whatever u is
C14_UsernameIgnored ==
    [][\A t \in Threads :
          (/\ gfr[t].op = "set_username"
           /\ pc[t] # "idle"
           /\ node[NodeAt(gfr[t].i)].file # "") =>
              /\ node' = node
              /\ heap'[vec[BYUSER]] = heap[vec[BYUSER]]
              /\ count'[BYUSER] = count[BYUSER]
              /\ pc'[t] # "aborted"]_vars

\* C15: a username that is not empty never changes
C15_UsernameWriteOnce ==
    [][\A p \in DOMAIN node :
          node[p].username # "" => node'[p].username = node[p].username]_vars

\* C16: graph_add_external_node(name) and graph_get_node(name) return the
\* node i of the last graph_set_username(i, name) made on a node without
\* file, if there is one, else the index a graph_add_external_node(name)
\* has returned, if there is one, and in both cases no Node is made
C16_LookupOrder ==
    /\ [](\A t \in Threads :
            (pc[t] = "graph_done"
               /\ gfr[t].op \in {"add_external", "get_node"}) =>
                LET n == gfr[t].name
                IN  IF hist.user[n] # ABSENT THEN gfr[t].res = hist.user[n]
                    ELSE hist.extern[n] # {} => gfr[t].res \in hist.extern[n])
    /\ [][\A t \in Threads :
            (/\ gfr[t].op \in {"add_external", "get_node"}
             /\ \/ hist.user[gfr[t].name] # ABSENT
                \/ hist.extern[gfr[t].name] # {}) =>
                Len(node') = Len(node)]_vars

\* C17: once graph_reset_labels has returned, graph_has_label(i, l) is
\* true exactly when a graph_add_label(i, l) has returned since the last
\* reset and graph_all_nodes_for_label(l) gives exactly the nodes of these
\* calls; while graph_reset_labels runs, the nodes and the containers that
\* hold no labels stay as they are
C17_LabelReset ==
    /\ [](\A t \in Threads :
            (pc[t] = "graph_done" /\ node_labels # LabelMap(0)) =>
                LET o == gfr[t]
                IN  /\ o.op = "has_label" =>
                         o.res = (<<o.i, o.name>> \in hist.labels)
                    /\ o.op = "nodes_for_label" =>
                         Range(o.res) =
                            {i \in LabelArgs : <<i, o.name>> \in hist.labels})
    /\ [][\A t \in Threads :
            (gfr[t].op = "reset_labels" /\ pc[t] # "idle") =>
                /\ node' = node
                /\ \A c \in NoLabelConts :
                      /\ vec'[c] = vec[c]
                      /\ count'[c] = count[c]
                      /\ capacity'[c] = capacity[c]
                      /\ heap'[vec[c]] = heap[vec[c]]
                      /\ \A k \in KeysOf(vec[c]) \ {NULL, PENDING} :
                            strs'[k] = strs[k]]_vars

\* C18: no thread that runs graph_add_label, graph_has_label or
\* graph_all_nodes_for_label is in a function of a label map or of a label
\* set that graph_reset_labels has deleted
C18_ResetSafe ==
    \A t \in Threads :
        (/\ gfr[t].op \in {"add_label", "has_label", "nodes_for_label"}
         /\ InCont(t)
         /\ node_labels # LabelMap(gfr[t].k)) =>
            ~heap[vec[Cont(t)]].freed

\* C19: graph_get_node of a name that no call has added or set as a
\* username returns -1 (the if_absent of ConcurrentStringMap::get),
\* graph_all_nodes_for_file and graph_all_nodes_for_label of a key that no
\* call has set give an iterator whose first iter_next is -1,
\* graph_has_label of such a label returns false, and while these
\* functions run no container changes
C19_AbsenceIsData ==
    /\ [](\A t \in Threads : pc[t] = "graph_done" =>
            LET o == gfr[t]
            IN  /\ (/\ o.op = "get_node"
                    /\ hist.extern[o.name] = {}
                    /\ hist.user[o.name] = ABSENT) => o.res = ABSENT
                /\ (/\ o.op = "nodes_for_file"
                    /\ o.name \in FileNames => hist.byfile[o.name] = <<>>)
                      => o.res = <<>>
                /\ (/\ o.op = "nodes_for_label"
                    /\ \A i \in LabelArgs : <<i, o.name>> \notin hist.labels)
                      => o.res = <<>>
                /\ (/\ o.op = "has_label"
                    /\ \A i \in LabelArgs : <<i, o.name>> \notin hist.labels)
                      => o.res = FALSE)
    /\ [][\A t \in Threads :
            gfr[t].op \in {"get_node", "nodes_for_file", "nodes_for_label",
                           "has_label"} =>
                /\ count' = count
                /\ capacity' = capacity
                /\ vec' = vec
                /\ heap' = heap
                /\ strs' = strs]_vars

\* C20: the capacity of a container changes only by doubling, in a call
\* of add whose reservation has found count >= floor(load_factor *
\* capacity) (0.75 for sets and maps, 1.0 for lists), and no reservation is
\* made beyond that threshold: with capacity 4 the map holds three
\* entries before it grows to 8; when the capacity has grown and no call is
\* in progress, get finds every key that has been added with the value
\* its add has returned
C20_GrowthThreshold ==
    /\ [][\A c \in DOMAIN capacity :
            LET lf == IF heap[vec[c]].kind \in {"list", "ilist"} THEN 4
                      ELSE 3
            IN  \/ capacity'[c] = capacity[c]
                \/ /\ capacity'[c] = 2 * capacity[c]
                   /\ \E t \in Threads :
                         /\ pc[t] = "resize_cap"
                         /\ Cont(t) = c
                         /\ cfr[t].op \in {"add", "addnew"}
                         /\ afr[t].current >= MaxLoad(lf, capacity[c])]_vars
    /\ [](\A c \in DOMAIN capacity :
            /\ count[c] <= MaxLoad(IF heap[vec[c]].kind \in {"list", "ilist"}
                                   THEN 4 ELSE 3, capacity[c])
            /\ (capacity[c] = MapCapacity /\ heap[vec[c]].kind = "map")
                 => count[c] <= 3)
    /\ []((Quiet /\ capacity["ca"] > MapCapacity) =>
            \A k \in Added :
                MapGetResults("ca", k, MapAbsent) \subseteq hist.add[k].vals)

\* C21: lock() on a handle whose region is already open ends the process
\* (no thread takes another step) and never returns into a second open
\* region: a thread that holds an open region has depth 1; lock() on a
\* handle whose region is closed (at first, or after the matching
\* unlock()) goes on and opens the region.
C21_RecursiveLockFatal ==
    /\ [](\A t \in Threads :
            /\ pc[t] = "region" => depth[t] = 1
            /\ depth[t] > 1 => \A u \in Threads : pc[u] = "aborted")
    /\ [][\A t \in Threads :
            (pc[t] = "lock" /\ depth'[t] # depth[t]) =>
                IF depth[t] > 0
                THEN \A u \in Threads : pc'[u] = "aborted"
                ELSE pc'[t] = "lock_load" /\ depth'[t] = 1]_vars

\* a second lock() on an open region has ended the process, after the same
\* thread had closed a region and opened it again
C21_Witness ==
    \E t \in Threads :
        /\ pc[t] = "aborted"
        /\ depth[t] = 2
        /\ ops[t] = 3

\* C22: a thread whose get or add has observed a resolved key in an entry
\* reads the value that was written to the entry, never the value_type()
\* the entry held while its key was NULL or PENDING: every entry of a
\* backing that has not been freed, the backing a grow is filling
\* included, has its value written when its key is resolved, and the
\* return e.value of a get or add that is not aborted never gives the
\* default value.
C22_Publication ==
    /\ [](\A b \in DOMAIN heap :
            (heap[b].kind = "map" /\ ~heap[b].freed) =>
                \A i \in DOMAIN heap[b].cells :
                    heap[b].cells[i].key \notin {NULL, PENDING} =>
                        heap[b].cells[i].value # 0)
    /\ [][\A t \in Threads :
            (pc[t] \in {"madd_ret", "mget_val"} /\ pc'[t] = "map_done") =>
                ret'[t] # 0]_vars

\* C23: a reader whose region was opened after add(k) had returned finds k:
\* no call of includes(k) made in such a region returns false, also when
\* another thread's resize of the set runs during the probe.
C23_VisibleAfterAdd == hist.miss = {}

\* C24: I4 in every state, the states inside a call of graph_add_edge
\* included: an index b in the calls set or in the refs set of node a has
\* a in the callers set of node b.
C24_CallersFirst ==
    \A a, b \in 0..(GraphCap - 1) :
        (NodeAt(a) # NULL /\ NodeAt(b) # NULL) =>
            (b \in SetContents(<<"calls", NodeAt(a)>>)
                     \cup SetContents(<<"refs", NodeAt(a)>>)
                => a \in SetContents(<<"callers", NodeAt(b)>>))

\* C25: I2: the callers, calls and refs tables of every node hold only
\* indices of nodes, and no index in two cells.
C25_NoDuplicates ==
    \A c \in DOMAIN vec :
        heap[vec[c]].kind = "set" =>
            LET cells == heap[vec[c]].cells
            IN  /\ SetContents(c) \subseteq 0..(count[LIST] - 1)
                /\ \A i, j \in DOMAIN cells :
                      (cells[i] # EMPTY /\ cells[i] = cells[j]) => i = j

\* C26: a call of add(k) whose compare-exchange on an empty cell s has
\* failed looks at cell s again before it moves on: when the cell holds k,
\* the next cell its find_index loads is s, and no two calls of add(k)
\* return true.
C26_RetrySameSlot ==
    /\ [][\A t \in Threads :
            ( /\ pc[t] = "sfind"
              /\ pc'[t] = "sfind_vec"
              /\ cfr[t].op = "add"
              /\ cfr[t].b # 0
              /\ ~heap[cfr[t].b].freed
              /\ heap[cfr[t].b].cells[cfr[t].i] = cfr[t].key )
            => cfr'[t].i = cfr[t].i]_vars
    /\ [](\A k \in SetKeys : hist[k].true <= 1)

\* the threads that hold the entry i of backing b as the e acquire has
\* returned to add, before add has stored the key
Owners(b, i) ==
    {t \in Threads : /\ pc[t] \in {"madd_test", "madd_value", "madd_create",
                                   "madd_key"}
                     /\ cfr[t].b = b
                     /\ cfr[t].i = i}

\* C27: in the backing vec points to, the key of an entry only moves from
\* NULL to PENDING and from PENDING to a string: a resolved key stays as it
\* is, a PENDING key belongs to exactly one thread as long as the process
\* runs, the one whose compare-exchange has set it, and only that thread's
\* add stores the string.
C27_SlotStates ==
    /\ [](\A c \in DOMAIN vec :
            heap[vec[c]].kind \in {"map", "pmap"} =>
                \A i \in DOMAIN heap[vec[c]].cells :
                    ( /\ heap[vec[c]].cells[i].key = PENDING
                      /\ \A t \in Threads : pc[t] # "aborted" ) =>
                        Cardinality(Owners(vec[c], i)) = 1)
    /\ [][\A c \in DOMAIN vec :
            (heap[vec[c]].kind \in {"map", "pmap"} /\ vec'[c] = vec[c]) =>
                \A i \in DOMAIN heap[vec[c]].cells :
                    LET old == heap[vec[c]].cells[i].key
                        new == heap'[vec[c]].cells[i].key
                    IN  \/ new = old
                        \/ /\ old = NULL
                           /\ new = PENDING
                           /\ \E t \in Threads :
                                 /\ pc[t] = "macq_cas"
                                 /\ Owners(vec[c], i)' = {t}
                        \/ /\ old = PENDING
                           /\ new \notin {NULL, PENDING}
                           /\ \E t \in Threads :
                                 /\ pc[t] = "madd_key"
                                 /\ Owners(vec[c], i) = {t}]_vars

\* a thread is about to store the string of the key it has made PENDING
\* while another thread looks at the same entry
C27_Witness ==
    \E t, u \in Threads :
        /\ t # u
        /\ pc[t] = "madd_key"
        /\ cfr[t].b = vec["ca"]
        /\ heap[cfr[t].b].cells[cfr[t].i].key = PENDING
        /\ pc[u] \in {"mfind_key", "macq_key", "macq_cas"}
        /\ cfr[u].b = cfr[t].b
        /\ cfr[u].i = cfr[t].i

\* C28: on a ConcurrentList, the indices reserve has returned are pairwise
\* distinct and are exactly 0 .. k - 1 for the k reservations made (count
\* is k), and a successful compare-exchange of reserve returns the count
\* it has replaced, which is smaller than the capacity of that moment.
C28_ReserveUnique ==
    /\ [](LET done == {p[1] : p \in hist.added}
          IN  /\ Cardinality(done) = Cardinality(hist.added)
              /\ \A t \in Reserving :
                    /\ ReservedBy(t) \notin done
                    /\ \A u \in Reserving \ {t} :
                          ReservedBy(u) # ReservedBy(t)
              /\ done \cup {ReservedBy(t) : t \in Reserving}
                    = 0..(count["ca"] - 1))
    /\ [][count'["ca"] # count["ca"] =>
            \E t \in Threads :
                /\ pc[t] = "reserve_cas"
                /\ pc'[t] = "ladd_vec"
                /\ ret'[t] = count["ca"]
                /\ count'["ca"] = count["ca"] + 1
                /\ ret'[t] < capacity["ca"]]_vars

\* two threads hold reservations at the same time, one of them made
\* after the list has grown
C28_Witness ==
    \E t, u \in Reserving :
        /\ t # u
        /\ ReservedBy(t) < ListCapacity
        /\ ReservedBy(u) >= ListCapacity
        /\ capacity["ca"] > ListCapacity

\* C29: once add(v) on a ConcurrentList has returned i, every later read
\* of element i yields v, whatever grows overlap the add or the read.
C29_ElementStays == hist.wrong = {}

\* the slots of the current backing of container c that are not empty
\* (a set cell that is not default_value, a map entry whose key is not
\* NULL)
NonEmpty(c) ==
    LET b == heap[vec[c]]
    IN  {i \in DOMAIN b.cells :
            IF b.kind = "set" THEN b.cells[i] # EMPTY
            ELSE b.cells[i].key # NULL}

\* C30: in every reachable state, every ConcurrentHashSet and every
\* ConcurrentStringMap has at most count non-empty slots in its current
\* backing, and count is at most floor(0.75 * capacity).
C30_LoadFactor ==
    \A c \in DOMAIN vec :
        heap[vec[c]].kind \in {"set", "map"} =>
            /\ Cardinality(NonEmpty(c)) <= count[c]
            /\ count[c] <= MaxLoad(3, capacity[c])

\* a duplicate insert is about to give its reservation back to a set that
\* another inserter has made grow in the meantime
C30_Witness ==
    \E t, u \in Threads :
        /\ t # u
        /\ pc[t] = "sadd_drop"
        /\ Cont(t) = "cs"
        /\ pc[u] \notin {"idle", "region", "aborted"}
        /\ Cont(u) = "cs"
        /\ capacity["cs"] > SetCapacity
        /\ Cardinality(NonEmpty("cs")) < count["cs"]

\* C40: the count of the semaphore RCUThread::wake is 0 or 1 in every
\* reachable state, and unlock() never releases it while its count is 1.
C40_WakeBinary ==
    /\ [](wake \in {0, 1})
    /\ [][\A t \in Threads :
            (pc[t] = "unlock_wake" /\ pc'[t] # "unlock_wake") => wake = 0]_vars

\* C32: of the threads that call resize(owner, c, 2c) with the same c one
\* grows the array and the others return false without allocating, copying
\* or changing the capacity; the capacity is the initial capacity times a
\* power of two, one backing has been allocated per doubling, and the
\* capacity changes only by doubling.
C32_GrowOnce ==
    /\ [](LET growing == {t \in Threads : Growing(t)}
              early == {t \in growing : pc[t] \in {"resize_copy", "resize_vec",
                                                   "resize_cap"}}
          IN  /\ Cardinality(growing) <= 1
              /\ \A t \in growing : mutex["ca"] = t
              /\ \A t \in early : capacity["ca"] = afr[t].cap
              /\ \A t \in growing \ early : capacity["ca"] = 2 * afr[t].cap
              /\ \E k \in 0..Len(heap) :
                    /\ capacity["ca"] = ListCapacity * 2 ^ k
                    /\ Len(heap) = 1 + k + Cardinality(early))
    /\ [][/\ capacity'["ca"] \in {capacity["ca"], 2 * capacity["ca"]}
          /\ \A t \in Threads :
                (/\ pc[t] = "resize_check"
                 /\ pc'[t] # "resize_check"
                 /\ capacity["ca"] # afr[t].cap)
                => /\ ret'[t] = FALSE
                   /\ pc'[t] = Head(stk[t])
                   /\ heap' = heap
                   /\ vec' = vec
                   /\ capacity' = capacity]_vars

\* a thread that called resize(owner, 4, 8) has taken the mutex after
\* another thread has made the list grow to 8
C32_Witness ==
    \E t \in Threads :
        /\ pc[t] = "resize_check"
        /\ afr[t].cap = ListCapacity
        /\ capacity["ca"] = 2 * ListCapacity

\* C33: a thread that is in synchronize_rcu(), called by resize or by
\* graph_reset_labels, has no reader region open on its own handle, it is
\* in none from the call of resize to its return, and reserve returns
\* with the region of its caller open.
C33_NoSelfWait ==
    /\ [](\A t \in Threads :
            (InSync(t) \/ pc[t] \in {"resize", "resize_check", "resize_copy",
                                     "resize_vec", "resize_cap",
                                     "resize_free"})
            => depth[t] = 0 /\ period[t] = 0)
    /\ [][\A t \in Threads :
            (pc[t] = "reserve_cas" /\ pc'[t] \notin {"reserve_cas",
                                                     "reserve_cap",
                                                     "aborted"})
            => depth'[t] = 1 /\ period'[t] # 0]_vars

\* one thread is in the synchronize_rcu() of a resize that its reserve
\* has called, another in that of graph_reset_labels
C33_Witness ==
    \E t, u \in Threads :
        /\ pc[t] = "sync_check"
        /\ Len(stk[t]) >= 3
        /\ SubSeq(stk[t], 1, 3) = <<"resize_free", "lock", "reserve_reload">>
        /\ pc[u] = "sync"
        /\ stk[u] # <<>>
        /\ Head(stk[u]) = "grl_delete"

\* the positions at which thread t reads or writes element cfr[t].i of
\* the backing cfr[t].b it has loaded from vec
AtElement(t) ==
    pc[t] \in {"sfind_cell", "sadd_cell", "sadd_cas", "sinc_cell",
               "mfind_key", "macq_key", "macq_cas", "madd_test",
               "madd_value", "madd_create", "madd_key", "mget_key",
               "mget1_key", "mget_val"}

C31_OpsReturn == \A t \in Threads : cfr[t].c # "" => pc[t] # "aborted"

\* the backings that have been allocated and not deleted
LiveBackings == {b \in DOMAIN heap : ~heap[b].freed}

\* C34: after a grow of the map the key string of every entry of the
\* current backing has not been deleted, the container an owned value
\* points to has not been deleted, and no key pointer is held by two
\* slots of the backings that have not been deleted.
C34_RehashMoves ==
    \A c \in DOMAIN vec :
        ( /\ heap[vec[c]].kind \in {"map", "pmap"}
          /\ ~heap[vec[c]].freed
          /\ \A t \in Threads : ~(Cont(t) = c /\ afr[t].new # 0) )
        => /\ \A p \in KeysOf(vec[c]) \ {NULL, PENDING} :
                 /\ ~strs[p].freed
                 /\ Cardinality({<<b, i>> \in
                        UNION {{b} \X DOMAIN heap[b].cells :
                                  b \in {x \in LiveBackings :
                                           heap[x].kind \in {"map", "pmap"}}} :
                        heap[b].cells[i].key = p}) = 1
           /\ \A o \in ObjsOf(vec[c]) : ~heap[vec[o]].freed

\* the entries of an iteration that have been dereferenced so far
Yielded(t) == hist.out[t]

\* C36: the iteration of graph_all_files over the keys of the map
\* dereferences the key of no entry whose key is NULL or PENDING, visits
\* the entries in the order of the backing and yields at most size() keys.
C36_IterResolved ==
    \A t \in Threads :
        /\ \A n \in DOMAIN Yielded(t) :
              Yielded(t)[n][3] \notin {"null", "pending"}
        /\ \A m, n \in DOMAIN Yielded(t) :
              m < n => Yielded(t)[m][2] < Yielded(t)[n][2]
        /\ Len(Yielded(t)) <= hist.size[t]

\* the members of the set c: the values of the cells of its backing
Members(c) ==
    {heap[vec[c]].cells[i] : i \in DOMAIN heap[vec[c]].cells} \ {EMPTY}

\* the values the calls of iter_next of thread t have returned before the
\* first -1
BeforeEnd(t) ==
    SelectSeq(hist.ret[t], LAMBDA v : v # -1)

\* C37: the calls of iter_next on the Iter of a set that no thread adds to
\* return no member twice and at most capacity values, return every
\* member before the first -1, and return -1 on every call after a -1.
C37_IterOnce ==
    \A t \in Threads :
        LET r == hist.ret[t]
        IN  /\ \A m, n \in DOMAIN r :
                  (m < n /\ r[m] = -1) => r[n] = -1
            /\ \A m, n \in DOMAIN r :
                  (m < n /\ r[m] # -1) => r[m] # r[n]
            /\ \A n \in DOMAIN r : r[n] \in Members("cs") \cup {-1}
            /\ Len(BeforeEnd(t)) <= hist.cap[t]
            /\ Len(BeforeEnd(t)) < Len(r)
                  => {r[n] : n \in DOMAIN BeforeEnd(t)} = Members("cs")

\* the places of node index i in the lists of nodes_by_file: the pairs of
\* a file f and a position j below size() of the list of f that holds i
FilePlaces(i) ==
    {<<f, j>> \in FileNames \X (0..(GraphCap - 1)) :
        \E e \in DOMAIN heap[vec[BYFILE]].cells :
            LET k == heap[vec[BYFILE]].cells[e].key
                c == ObjCont(heap[vec[BYFILE]].cells[e].value)
            IN  /\ k \notin {NULL, PENDING}
                /\ strs[k].s = f
                /\ c \in DOMAIN vec
                /\ j < count[c]
                /\ j \in DOMAIN heap[vec[c]].cells
                /\ heap[vec[c]].cells[j] = i}

\* C38: when the calls of graph_set_location have returned, a node index
\* is at one place of the lists of nodes_by_file at most, and only in the
\* list of the file of its node.
C38_FileListsMatch ==
    (NoCall /\ todo = <<>>) =>
        \A i \in 0..(count[LIST] - 1) :
            /\ Cardinality(FilePlaces(i)) <= 1
            /\ \A pl \in FilePlaces(i) : node[NodeAt(i)].file = pl[1]

\* the node indices that calls of graph_set_location have written into
\* the list of file f: those of the calls that have returned, and those
\* of the calls that have stored contents[i].value and not returned yet
WrittenFor(f) ==
    {hist.byfile[f][n] : n \in DOMAIN hist.byfile[f]}
    \cup {gfr[u].i : u \in {v \in Threads :
                              /\ gfr[v].op = "set_location"
                              /\ gfr[v].name = f
                              /\ cfr[v].c \in DOMAIN vec
                              /\ heap[vec[cfr[v].c]].kind = "ilist"
                              /\ \/ pc[v] = "graph_done"
                                 \/ /\ stk[v] # <<>>
                                    /\ Head(stk[v]) = "graph_done"}}

\* C39: every index that the calls of iter_next on the iterator of
\* graph_all_nodes_for_file(f) return has been written into the list of f
\* by a call of graph_set_location.
C39_OnlyPublished ==
    \A t \in Threads :
        (pc[t] = "graph_done" /\ gfr[t].op = "nodes_for_file") =>
            \A n \in DOMAIN gfr[t].res :
                gfr[t].res[n] \in WrittenFor(gfr[t].name)

=============================================================================
